---- MODULE Spec2Model ----
(***************************************************************************)
(* Multi-provider music metadata aggregation layer of intellegin/audio:    *)
(* the provider router (src/lib/music-api.ts), the file-index (Synology)   *)
(* adapter (src/lib/synology-api.ts), the home-media (Plex) adapter        *)
(* (src/lib/plex-api.ts) and the catalog (JioSaavn) adapter.               *)
(*                                                                         *)
(* Spec        : one page request at a time through the router and the     *)
(*               adapters, every outbound network call a separate step.    *)
(* SessionSpec : concurrent callers of getSynologySession and              *)
(*               fileStationApiCall sharing the module-level session       *)
(*               cache, with a wall clock.                                 *)
(***************************************************************************)
EXTENDS Integers, Sequences, FiniteSets, TLC

VARIABLES
  env,            \* process environment (env.ts), fixed for the process
  now,            \* Date.now()
  sessionId,      \* synology-api.ts module variable, 0 models null
  sessionExpiry,  \* synology-api.ts module variable
  nextSid,        \* number of session ids the NAS has issued so far
  metadataCache,  \* synology-api.ts module-level Map, file -> cached entry
  op,             \* router operation in progress
  token,          \* file the getSongDetails token decodes to (0: none)
  pc,             \* position of the request
  called,         \* adapters the router has invoked for this operation
  net,            \* network requests issued during this operation
  inflight,       \* the network request being awaited
  result,         \* what the router returned to the page layer
  sessAt,         \* call site of the getSynologySession call in progress
  todo,           \* audio files of the scan still to be processed
  scanned,        \* findAudioFiles result: file -> origin of its metadata
  cache0,         \* metadataCache as it was when the operation started
  resp,           \* download responses received during this operation
  step,           \* index of the Plex call in progress within the operation
  cpc,            \* SessionSpec: position of each concurrent caller
  cres,           \* SessionSpec: what each caller's session call returned
  cused,          \* SessionSpec: session id a caller's File Station call carries
  ckind,          \* SessionSpec: "session" (bare call) or "fs" (File Station call)
  clogin,         \* SessionSpec: whether the caller's current call logged in
  loginAt,        \* time at which each issued session id was stored
  loginResp,      \* LoginSpec: the reply the last login request received
  thrown,         \* LoginSpec: the error the last getSynologySession call threw
  library,        \* IdSpec: the files findAudioFiles returns, in list order
  links,          \* IdSpec: the song, album and artist links of the last result
  lookup,         \* IdSpec: the last operation called with a token
  parseArgs,      \* ParseSpec: the file name and folder path to parse
  parsed,         \* ParseSpec: what parseAudioFileName returned for them
  audioFileList,  \* ScanSpec: the audio files of the listing, in list order
  batchAt,        \* ScanSpec: the loop index i of findAudioFiles
  pending,        \* ScanSpec: files whose extraction request is in flight
  settled,        \* ScanSpec: file -> result of its resolved extraction (this batch)
  audioFiles,     \* ScanSpec: the AudioFileInfo records pushed so far
  extraction,     \* ScanSpec: file -> how its extraction went in this scan
  discovery,      \* home-media: what getMusicLibrarySectionId's request came to
  sectionId,      \* home-media: the operation's sectionId ("" before discovery)
  plexCalls,      \* home-media: the requests sent, in order, with their section
  plexTrack,      \* TrackSpec: the track given to mapPlexTrackToSong
  song,           \* TrackSpec: the Song it returned
  rendering,      \* PageSpec: what the last server component rendered, and from what
  songObj,        \* SongsSpec: the tokens given to getSongDetails and its outcome
  walk,           \* WalkSpec: one recursive scan of a folder tree
  roots,          \* RootSpec: the folder each file-index operation scanned
  authz           \* AuthSpec: the last authorize call and what it came to

vars == <<env, now, sessionId, sessionExpiry, nextSid, metadataCache, op, token,
          pc, called, net, inflight, result, sessAt, todo, scanned, cache0,
          resp, step, cpc, cres, cused, ckind, clogin, loginAt, loginResp,
          thrown, library, links, lookup, parseArgs, parsed, audioFileList,
          batchAt, pending, settled, audioFiles, extraction, discovery,
          sectionId, plexCalls, plexTrack, song,
          rendering, songObj, walk, roots, authz>>

(***************************************************************************)
(* Bounds                                                                  *)
(***************************************************************************)
NumFiles == 1
MaxLogins == 2
NumCallers == 2
MaxTicks == 2
TickMs == 900000

Files == 1..NumFiles
Callers == 1..NumCallers
NoFile == 0

Range(q) == {q[i] : i \in 1..Len(q)}

(***************************************************************************)
(* Environment                                                             *)
(***************************************************************************)
Unset == "unset"
Placeholder == "placeholder"
Real == "real"
EnvValues == {Unset, Placeholder, Real}

\* emptyStringAsUndefined: an unset variable reads as undefined (falsy)
Truthy(v) == v # Unset

EnvConfigs ==
  [SYNOLOGY_SERVER_URL : EnvValues, SYNOLOGY_USERNAME : EnvValues,
   SYNOLOGY_PASSWORD : EnvValues, PLEX_URL : EnvValues, PLEX_TOKEN : EnvValues,
   API_PROVIDER : {"jiosaavn", "plex", "custom"}]

DataOps == {"getHomeData", "getSongDetails", "getAlbumDetails",
            "getArtistDetails", "searchAll"}
MenuOps == {"getMegaMenu", "getFooterDetails", "getTopSearches"}
Ops == DataOps \cup MenuOps

(***************************************************************************)
(* Router: provider selection                                              *)
(***************************************************************************)
synologyConfigured_UrlOnly(e) == Truthy(e.SYNOLOGY_SERVER_URL)

synologyConfigured(e) ==
  /\ Truthy(e.SYNOLOGY_SERVER_URL)
  /\ Truthy(e.SYNOLOGY_USERNAME)
  /\ Truthy(e.SYNOLOGY_PASSWORD)

getApiProvider_IgnoreFlag(e) ==
  IF Truthy(e.PLEX_URL) /\ Truthy(e.PLEX_TOKEN) THEN "plex" ELSE "jiosaavn"

getApiProvider(e) ==
  IF e.API_PROVIDER = "plex"
  THEN IF ~Truthy(e.PLEX_URL) \/ ~Truthy(e.PLEX_TOKEN) THEN "jiosaavn" ELSE "plex"
  ELSE "jiosaavn"

routerTriesSynology_AllOps(o, e) == synologyConfigured(e)

\* only the five data operations consult the Synology adapter
routerTriesSynology(o, e) == o \in DataOps /\ synologyConfigured(e)

NoRequest == [to |-> "none", kind |-> "none", timeout |-> FALSE, file |-> NoFile]
NoResult == [from |-> "none", kind |-> "pending", error |-> FALSE]
\* an exception reaching the page layer
Thrown == [from |-> "none", kind |-> "throw", error |-> TRUE]

EntryPc(p) == IF p = "synology" THEN "syn_entry"
              ELSE IF p = "plex" THEN "plex_call" ELSE "jio_call"

\* the catch block of the router: log and go on with getApiProvider()
routerFallback_RetrySynology(e, c) ==
  [pc |-> "syn_entry", called |-> Append(c, "synology"), result |-> NoResult]

routerFallback_Rethrow(e, c) == [pc |-> "done", called |-> c, result |-> Thrown]

routerFallback(e, c) ==
  LET p == getApiProvider(e)
  IN  [pc |-> EntryPc(p), called |-> Append(c, p), result |-> NoResult]

(***************************************************************************)
(* Variable groups                                                         *)
(***************************************************************************)
sessVars == <<sessionId, sessionExpiry, nextSid, loginAt>>
concVars == <<cpc, cres, cused, ckind, clogin>>
scanVars == <<todo, scanned, resp>>
loginVars == <<loginResp, thrown>>
\* state of the adapter-level specifications, untouched by the router
idVars == <<library, links, lookup>>
parseVars == <<parseArgs, parsed>>
batchVars == <<audioFileList, batchAt, pending, settled, audioFiles, extraction>>
plexVars == <<discovery, sectionId, plexCalls>>
trackVars == <<plexTrack, song>>
lateVars == <<walk, roots, authz>>
moreVars == <<trackVars, rendering, songObj, lateVars>>
adapterVars == <<loginVars, idVars, parseVars, batchVars, moreVars>>
extVars == <<adapterVars, plexVars>>

(***************************************************************************)
(* File-index (Synology) adapter: session cache                            *)
(***************************************************************************)
SessionTTL == 20 * 60 * 1000

checkSynologyConfigured(e) ==
  ~(~Truthy(e.SYNOLOGY_SERVER_URL) \/ ~Truthy(e.SYNOLOGY_USERNAME)
      \/ ~Truthy(e.SYNOLOGY_PASSWORD))

\* "Return cached session if still valid"
sessionValid_NoExpiry(sid, expiry, t) == sid # 0

sessionValid(sid, expiry, t) == sid # 0 /\ t < expiry

\* a successful login stores the id and its expiry together
storeSession_StaleExpiry(sid, expiry, t) ==
  [sessionId |-> sid, sessionExpiry |-> IF expiry = 0 THEN t + SessionTTL ELSE expiry]

storeSession(sid, expiry, t) == [sessionId |-> sid, sessionExpiry |-> t + SessionTTL]

\* "Clear session on error"
clearSession_KeepId(sid) == [sessionId |-> sid, sessionExpiry |-> 0]

clearSession(sid) == [sessionId |-> 0, sessionExpiry |-> 0]

\* the body of a login reply: data.success, whether data.data.sid is there,
\* data.error.code (0: none) and the data.error.errors.types entries
ErrorCodes == {0, 400, 402, 403, 404}
ErrorTypes == {"authenticator", "otp", "other"}
NoReply == [kind |-> "none", success |-> FALSE, sid |-> FALSE, code |-> 0, types |-> {}]
HttpErrorReply ==
  [kind |-> "http_error", success |-> FALSE, sid |-> FALSE, code |-> 0, types |-> {}]
LoginReplies ==
  [kind : {"json"}, success : BOOLEAN, sid : BOOLEAN, code : ErrorCodes,
   types : SUBSET ErrorTypes] \cup {HttpErrorReply}

\* the branch of getSynologySession a login reply takes
loginFailure_AnyForbidden(r) ==
  IF r.kind = "http_error" THEN "http_error"
  ELSE IF ~r.success \/ ~r.sid
       THEN IF r.code = 403 THEN "2fa"
            ELSE IF r.code = 402 THEN "bad_credentials" ELSE "generic"
       ELSE "ok"

loginFailure(r) ==
  IF r.kind = "http_error" THEN "http_error"
  ELSE IF ~r.success \/ ~r.sid
       THEN IF r.code = 403 /\ ("authenticator" \in r.types \/ "otp" \in r.types)
            THEN "2fa"
            ELSE IF r.code = 402 THEN "bad_credentials" ELSE "generic"
       ELSE "ok"

\* the message of the Error each failure branch throws (up to its variable
\* suffix: the status text or the error code)
NoError == "none"
loginError(k) ==
  CASE k = "2fa" -> "Synology NAS requires 2FA authentication"
    [] k = "bad_credentials" ->
         "Synology authentication failed: Invalid username or password"
    [] k = "http_error" -> "Synology login failed"
    [] k = "generic" -> "Synology login failed"
    [] k = "timeout" -> "Synology NAS connection timeout"
    [] k = "network_error" -> "fetch failed"

NoParseArgs == [filename |-> <<>>, folderPath |-> <<>>, segments |-> <<>>, folders |-> <<>>]
NoParse == [artist |-> <<>>, album |-> <<>>, title |-> <<>>, track |-> -1]

NoLookup ==
  [op |-> "none", token |-> <<>>, artist |-> <<>>, album |-> <<>>, files |-> {},
   threw |-> FALSE]

LoginFailures == {"http_error", "2fa", "bad_credentials", "generic", "network_error"}

\* what the NAS can answer to a login: a placeholder URL reaches no server,
\* placeholder credentials are never accepted
LoginOutcomes(e, issued) ==
  IF e.SYNOLOGY_SERVER_URL = Placeholder THEN {"network_error"}
  ELSE IF e.SYNOLOGY_USERNAME = Placeholder \/ e.SYNOLOGY_PASSWORD = Placeholder
       THEN LoginFailures
       ELSE LoginFailures \cup (IF issued < MaxLogins THEN {"ok"} ELSE {})

LoginRequest == [to |-> "synology", kind |-> "login", timeout |-> TRUE, file |-> NoFile]
ListRequest == [to |-> "synology", kind |-> "list", timeout |-> TRUE, file |-> NoFile]
DownloadRequest(f) == [to |-> "synology", kind |-> "download", timeout |-> TRUE, file |-> f]
PlexRequest(k) == [to |-> "plex", kind |-> k, timeout |-> FALSE, file |-> NoFile]
CatalogRequest == [to |-> "jiosaavn", kind |-> "catalog", timeout |-> FALSE, file |-> NoFile]

Send(r) == inflight' = r /\ net' = net \cup {r}

ApplyRouter(r) == pc' = r.pc /\ called' = r.called /\ result' = r.result

(***************************************************************************)
(* Router operations (music-api.ts)                                        *)
(***************************************************************************)
\* sectionId before getMusicLibrarySectionId has returned
NoSection == <<>>
NotDiscovered == [state |-> "none", sections |-> <<>>]

StartRequest(o, t) ==
  /\ pc \in {"idle", "done"}
  /\ op' = o
  /\ token' = t
  /\ net' = {}
  /\ inflight' = NoRequest
  /\ sessAt' = "none"
  /\ step' = 0
  /\ todo' = {}
  /\ scanned' = [f \in Files |-> "none"]
  /\ resp' = [f \in Files |-> "none"]
  /\ cache0' = metadataCache
  /\ IF routerTriesSynology(o, env)
     THEN pc' = "syn_entry" /\ called' = <<"synology">> /\ result' = NoResult
     ELSE ApplyRouter(routerFallback(env, <<>>))
  /\ discovery' = NotDiscovered
  /\ sectionId' = NoSection
  /\ plexCalls' = <<>>
  /\ UNCHANGED <<env, now, sessVars, metadataCache, concVars, adapterVars>>

getHomeData == StartRequest("getHomeData", NoFile)
getSongDetails == \E t \in Files \cup {NoFile} : StartRequest("getSongDetails", t)
getAlbumDetails == StartRequest("getAlbumDetails", NoFile)
getArtistDetails == StartRequest("getArtistDetails", NoFile)
searchAll == StartRequest("searchAll", NoFile)
getMegaMenu == StartRequest("getMegaMenu", NoFile)
getFooterDetails == StartRequest("getFooterDetails", NoFile)
getTopSearches == StartRequest("getTopSearches", NoFile)

(***************************************************************************)
(* File-index adapter operations (synology-api.ts)                         *)
(***************************************************************************)
\* kind "empty" is the operation's empty shape; error tells that it comes from
\* a failure path (a catch block) of the adapter
SynologyResult(k, err) == [from |-> "synology", kind |-> k, error |-> err]

\* every exported operation starts with checkSynologyConfigured()
SynologyEntry ==
  /\ pc = "syn_entry"
  /\ IF checkSynologyConfigured(env)
     THEN pc' = "syn_session" /\ sessAt' = "op" /\ UNCHANGED <<called, result>>
     ELSE ApplyRouter(routerFallback(env, called)) /\ UNCHANGED sessAt
  /\ UNCHANGED <<env, now, sessVars, metadataCache, op, token, net, inflight,
                 scanVars, cache0, step, concVars, extVars>>

\* a getSynologySession call at site s returned a session id
AfterSession(s) ==
  CASE s = "op" ->
         /\ pc' = "syn_session" /\ sessAt' = "list"
         /\ inflight' = NoRequest
         /\ UNCHANGED <<net, called, result, scanVars>>
    [] s = "list" ->
         /\ pc' = "syn_list"
         /\ Send(ListRequest)
         /\ UNCHANGED <<sessAt, called, result, scanVars>>
    [] s = "scan" ->
         /\ pc' = IF todo = {} THEN "syn_finish" ELSE "syn_extract"
         /\ inflight' = NoRequest
         /\ UNCHANGED <<sessAt, net, called, result, scanVars>>

\* a getSynologySession call at site s threw
SessionThrew(s) ==
  /\ inflight' = NoRequest
  /\ IF s = "op"
     THEN /\ IF op = "getHomeData"
             THEN pc' = "done" /\ result' = SynologyResult("empty", TRUE)
                  /\ UNCHANGED called
             ELSE ApplyRouter(routerFallback(env, called))
          /\ UNCHANGED <<sessAt, net, scanVars>>
     ELSE \* caught by findAudioFiles, which returns what it has: nothing
          /\ pc' = "syn_finish"
          /\ todo' = {}
          /\ UNCHANGED <<sessAt, net, called, result, scanned, resp>>

getSynologySession ==
  /\ pc = "syn_session"
  /\ IF sessionValid(sessionId, sessionExpiry, now)
     THEN AfterSession(sessAt)
     ELSE /\ pc' = "syn_login"
          /\ Send(LoginRequest)
          /\ UNCHANGED <<sessAt, called, result, scanVars>>
  /\ UNCHANGED <<env, now, sessVars, metadataCache, op, token, cache0, step,
                 concVars, extVars>>

LoginFailed ==
  /\ sessionId' = clearSession(sessionId).sessionId
  /\ sessionExpiry' = clearSession(sessionId).sessionExpiry
  /\ UNCHANGED <<nextSid, loginAt>>
  /\ SessionThrew(sessAt)

LoginResponse(o) ==
  /\ pc = "syn_login"
  /\ o \in LoginOutcomes(env, nextSid)
  /\ IF o = "ok"
     THEN /\ nextSid' = nextSid + 1
          /\ sessionId' = storeSession(nextSid + 1, sessionExpiry, now).sessionId
          /\ sessionExpiry' = storeSession(nextSid + 1, sessionExpiry, now).sessionExpiry
          /\ loginAt' = [loginAt EXCEPT ![nextSid + 1] = now]
          /\ AfterSession(sessAt)
     ELSE LoginFailed
  /\ UNCHANGED <<env, now, metadataCache, op, token, cache0, step, concVars, extVars>>

LoginTimeout ==
  /\ pc = "syn_login"
  /\ inflight.timeout
  /\ LoginFailed
  /\ UNCHANGED <<env, now, metadataCache, op, token, cache0, step, concVars, extVars>>

\* listFiles failed, and the error reached the router
ListFailed_Rethrow ==
  /\ inflight' = NoRequest
  /\ ApplyRouter(routerFallback(env, called))
  /\ UNCHANGED <<sessAt, todo, scanned, resp>>

\* listFiles failed: findAudioFiles catches and returns the empty list
ListFailed ==
  /\ inflight' = NoRequest
  /\ pc' = "syn_finish"
  /\ todo' = {}
  /\ UNCHANGED <<sessAt, called, result, scanned, resp>>

ListResponse ==
  /\ pc = "syn_list"
  /\ \/ \E files \in SUBSET Files :
          /\ inflight' = NoRequest
          /\ todo' = files
          /\ pc' = "syn_session" /\ sessAt' = "scan"
          /\ UNCHANGED <<called, result, scanned, resp>>
     \/ ListFailed
  /\ UNCHANGED <<env, now, sessVars, metadataCache, op, token, net, cache0,
                 step, concVars, extVars>>

ListTimeout ==
  /\ pc = "syn_list"
  /\ inflight.timeout
  /\ ListFailed
  /\ UNCHANGED <<env, now, sessVars, metadataCache, op, token, net, cache0,
                 step, concVars, extVars>>

(***************************************************************************)
(* File-index adapter: tag extraction with the module-level metadataCache  *)
(***************************************************************************)
Min(S) == CHOOSE x \in S : \A y \in S : x <= y

\* what findAudioFiles makes of an extraction result: tags when there are
\* any, otherwise the filename heuristic
MetaOf(entry) == IF entry = "tags" THEN "tags" ELSE "heuristic"

cacheHit_Never(cache, f) == FALSE

\* metadataCache.has(filePath)
cacheHit(cache, f) == cache[f] # "absent"

DownloadOutcomes == {"tags", "bad_status", "empty_body", "parse_error", "network_error"}

\* entry written to metadataCache for a download outcome ("absent": none)
cacheWrite(old, o) ==
  IF o = "tags" THEN "tags"
  ELSE IF o = "network_error" \/ o = "timeout" THEN "default"
  ELSE old

FileDone(f, m) ==
  /\ scanned' = [scanned EXCEPT ![f] = m]
  /\ todo' = todo \ {f}
  /\ pc' = IF todo \ {f} = {} THEN "syn_finish" ELSE "syn_extract"

extractAudioMetadata ==
  /\ pc = "syn_extract"
  /\ todo # {}
  /\ LET f == Min(todo)
     IN  IF cacheHit(metadataCache, f)
         THEN /\ FileDone(f, MetaOf(metadataCache[f]))
              /\ UNCHANGED <<net, inflight, resp>>
         ELSE /\ pc' = "syn_download"
              /\ Send(DownloadRequest(f))
              /\ UNCHANGED <<todo, scanned, resp>>
  /\ UNCHANGED <<env, now, sessVars, metadataCache, op, token, called, result,
                 sessAt, cache0, step, concVars, extVars>>

DownloadDone(o) ==
  LET f == inflight.file
  IN  /\ inflight' = NoRequest
      /\ resp' = [resp EXCEPT ![f] = o]
      /\ metadataCache' = [metadataCache EXCEPT ![f] = cacheWrite(@, o)]
      /\ FileDone(f, MetaOf(o))
      /\ UNCHANGED <<env, now, sessVars, op, token, called, net, result,
                     sessAt, cache0, step, concVars, extVars>>

DownloadResponse(o) ==
  /\ pc = "syn_download"
  /\ o \in DownloadOutcomes
  /\ DownloadDone(o)

DownloadTimeout ==
  /\ pc = "syn_download"
  /\ inflight.timeout
  /\ DownloadDone("timeout")

\* the rest of the exported operation once findAudioFiles has returned
SynologyFinish ==
  /\ pc = "syn_finish"
  /\ IF op = "getSongDetails" /\ (token = NoFile \/ scanned[token] = "none")
     THEN \* "No songs found for token": rethrown to the router
          ApplyRouter(routerFallback(env, called))
     ELSE pc' = "done" /\ result' = SynologyResult("data", FALSE) /\ UNCHANGED called
  /\ UNCHANGED <<env, now, sessVars, metadataCache, op, token, net, inflight,
                 sessAt, scanVars, cache0, step, concVars, extVars>>

(***************************************************************************)
(* Home-media (Plex) adapter (plex-api.ts)                                 *)
(***************************************************************************)
\* the plexApiCall endpoints each exported operation requests, in order;
\* "sections" is getMusicLibrarySectionId
PlexPlan(o) ==
  CASE o = "getHomeData" -> <<"sections", "section", "section", "playlists">>
    [] o = "getSongDetails" -> <<"metadata">>
    [] o = "getAlbumDetails" -> <<"metadata", "children">>
    [] o = "getArtistDetails" -> <<"metadata", "children">>
    [] o = "searchAll" -> <<"sections", "search">>
    [] o = "getMegaMenu" -> <<"sections", "section", "playlists", "section">>
    [] o = "getFooterDetails" -> <<"sections", "section", "section", "playlists">>
    [] o = "getTopSearches" -> <<"sections", "section">>

PlexResult(k, err) == [from |-> "plex", kind |-> k, error |-> err]

PlexKind == PlexPlan(op)[step + 1]

\* the call went through: next call, or the mapped result after the last one
PlexAdvance ==
  IF step + 1 = Len(PlexPlan(op))
  THEN pc' = "done" /\ result' = PlexResult("data", FALSE) /\ UNCHANGED step
  ELSE pc' = "plex_call" /\ step' = step + 1 /\ UNCHANGED result

\* plexApiCall threw: getMusicLibrarySectionId swallows it, anywhere else the
\* catch block of the exported operation returns the empty shape
plexCatch_Rethrow(k) == Thrown

plexCatch(k) == PlexResult("empty", TRUE)

PlexThrew ==
  IF PlexKind = "sections"
  THEN PlexAdvance
  ELSE pc' = "done" /\ result' = plexCatch(PlexKind) /\ UNCHANGED step

\* "/library/sections/"
SectionsPrefix ==
  <<47, 108, 105, 98, 114, 97, 114, 121, 47, 115, 101, 99, 116, 105, 111, 110, 115, 47>>

\* "1"
DefaultSection == <<49>>

\* str.replace(pat, ""): the first occurrence of pat removed
removeFirst(str, pat) ==
  LET at == {i \in 1..(Len(str) - Len(pat) + 1) : SubSeq(str, i, i + Len(pat) - 1) = pat}
  IN  IF at = {} THEN str
      ELSE LET i == CHOOSE j \in at : \A k \in at : j <= k
           IN  SubSeq(str, 1, i - 1) \o SubSeq(str, i + Len(pat), Len(str))

\* Metadata?.find(section => section.type === "artist" || section.type === "album")
musicSection(sections) ==
  LET at == {i \in 1..Len(sections) : sections[i].type \in {"artist", "album"}}
  IN  IF at = {} THEN 0 ELSE CHOOSE j \in at : \A k \in at : j <= k

DiscoveryThrew == [state |-> "threw", sections |-> <<>>]
Discovered(l) == [state |-> "listed", sections |-> l]

\* the section lists /library/sections can answer
SectionLists ==
  { <<>>,
    <<[type |-> "movie", key |-> <<49>>]>>,
    <<[type |-> "movie", key |-> <<49>>], [type |-> "artist", key |-> <<50>>]>>,
    <<[type |-> "show", key |-> <<49>>],
      [type |-> "album", key |-> SectionsPrefix \o <<51>>],
      [type |-> "artist", key |-> <<50>>]>> }

getMusicLibrarySectionId_FirstSection(d) ==
  IF d.state = "threw" \/ d.sections = <<>> THEN DefaultSection
  ELSE removeFirst(d.sections[1].key, SectionsPrefix)

\* the value getMusicLibrarySectionId returns
getMusicLibrarySectionId(d) ==
  IF d.state = "threw" \/ musicSection(d.sections) = 0 THEN DefaultSection
  ELSE LET id == removeFirst(d.sections[musicSection(d.sections)].key, SectionsPrefix)
       IN  IF id = <<>> THEN DefaultSection ELSE id

\* the await of getMusicLibrarySectionId returns into the operation
Discover(d) ==
  IF PlexKind = "sections"
  THEN discovery' = d /\ sectionId' = getMusicLibrarySectionId(d)
  ELSE UNCHANGED <<discovery, sectionId>>

\* the endpoints that carry the section id
SectionScoped == {"section", "search"}

plexApiCall ==
  /\ pc = "plex_call"
  /\ IF ~Truthy(env.PLEX_URL) \/ ~Truthy(env.PLEX_TOKEN)
     THEN PlexThrew /\ Discover(DiscoveryThrew) /\ UNCHANGED <<net, inflight, plexCalls>>
     ELSE /\ pc' = "plex_wait"
          /\ Send(PlexRequest(PlexKind))
          /\ plexCalls' = Append(plexCalls,
                [kind |-> PlexKind,
                 section |-> IF PlexKind \in SectionScoped THEN sectionId ELSE NoSection])
          /\ UNCHANGED <<step, result, discovery, sectionId>>
  /\ UNCHANGED <<env, now, sessVars, metadataCache, op, token, called, sessAt,
                 scanVars, cache0, concVars, adapterVars>>

\* what the Plex server can answer: a placeholder URL reaches no server and a
\* placeholder token is rejected
PlexOutcomes(e) ==
  IF Placeholder \in {e.PLEX_URL, e.PLEX_TOKEN} THEN {"fail"}
  ELSE {"ok", "no_item", "fail"}

PlexResponse(o) ==
  /\ pc = "plex_wait"
  /\ o \in PlexOutcomes(env)
  /\ o = "no_item" => PlexKind = "metadata"
  /\ inflight' = NoRequest
  /\ CASE o = "ok" -> PlexAdvance /\ \E l \in SectionLists : Discover(Discovered(l))
       [] o = "no_item" -> /\ pc' = "done" /\ result' = PlexResult("empty", FALSE)
                           /\ UNCHANGED <<step, discovery, sectionId>>
       [] o = "fail" -> PlexThrew /\ Discover(DiscoveryThrew)
  /\ UNCHANGED <<env, now, sessVars, metadataCache, op, token, called, net,
                 sessAt, scanVars, cache0, concVars, adapterVars, plexCalls>>

(***************************************************************************)
(* Catalog (JioSaavn) adapter                                              *)
(***************************************************************************)
CatalogResult(k, err) == [from |-> "jiosaavn", kind |-> k, error |-> err]

jiosaavnCall ==
  /\ pc = "jio_call"
  /\ pc' = "jio_wait"
  /\ Send(CatalogRequest)
  /\ UNCHANGED <<env, now, sessVars, metadataCache, op, token, called, result,
                 sessAt, scanVars, cache0, step, concVars, extVars>>

\* on non-2xx or parse failure the adapter returns the operation's empty shape
jiosaavnResponse(o) ==
  /\ pc = "jio_wait"
  /\ o \in {"ok", "fail"}
  /\ inflight' = NoRequest
  /\ pc' = "done"
  /\ result' = IF o = "ok" THEN CatalogResult("data", FALSE)
                ELSE CatalogResult("empty", TRUE)
  /\ UNCHANGED <<env, now, sessVars, metadataCache, op, token, called, net,
                 sessAt, scanVars, cache0, step, concVars, extVars>>

(***************************************************************************)
(* Wall clock: time passes between requests and while a call is awaited    *)
(***************************************************************************)
Tick ==
  /\ pc \in {"idle", "done"} \/ inflight # NoRequest
  /\ now < MaxTicks * TickMs
  /\ now' = now + TickMs
  /\ UNCHANGED <<env, sessVars, metadataCache, op, token, pc, called, net,
                 inflight, result, sessAt, scanVars, cache0, step, concVars, extVars>>

(***************************************************************************)
(* Spec: one request at a time                                             *)
(***************************************************************************)
PlexIdle == discovery = NotDiscovered /\ sectionId = NoSection /\ plexCalls = <<>>

\* no track mapped yet
NoTrack == [ratingKey |-> <<>>, duration |-> <<>>]
NoSong == [id |-> <<>>, duration |-> 0]

NoSongObj == [tokens |-> <<>>, songs |-> <<>>, error |-> "not_called"]
NoRendering == [component |-> "none", of |-> NoResult, view |-> "none"]

\* no scan started: no tree chosen, nothing listed
NoWalk == [state |-> "idle", parent |-> <<>>, withFile |-> {}, failing |-> {},
           stack |-> <<>>, allFiles |-> <<>>, listed |-> <<>>,
           audioFiles |-> <<>>, sessionThrew |-> FALSE]

\* no file-index operation has read the root-path setting yet
NotRead == "not read"
NotListed == "not listed"
NoRoots == [setting |-> NotRead,
            listed |-> [o \in DataOps |-> NotListed],
            homeArtists |-> {},
            artistFiles |-> {}]

\* authorize has not been called
NoOutcome == [kind |-> "none", id |-> ""]
NoAuthz == [version |-> "none", email |-> "", password |-> 0, db |-> "none",
            row |-> [found |-> FALSE, password_hash |-> 0, password |-> 0],
            adminPassword |-> 0, outcome |-> NoOutcome]

MoreIdle ==
  /\ plexTrack = NoTrack /\ song = NoSong
  /\ rendering = NoRendering
  /\ songObj = NoSongObj
  /\ walk = NoWalk
  /\ roots = NoRoots
  /\ authz = NoAuthz

BaseInit ==
  /\ PlexIdle
  /\ MoreIdle
  /\ env \in EnvConfigs
  /\ now = 0
  /\ sessionId = 0
  /\ sessionExpiry = 0
  /\ nextSid = 0
  /\ loginAt = [s \in 1..(MaxLogins + 1) |-> 0]
  /\ op = "none"
  /\ token = NoFile
  /\ pc = "idle"
  /\ called = <<>>
  /\ net = {}
  /\ inflight = NoRequest
  /\ result = NoResult
  /\ sessAt = "none"
  /\ step = 0
  /\ todo = {}
  /\ scanned = [f \in Files |-> "none"]
  /\ resp = [f \in Files |-> "none"]
  /\ cache0 = [f \in Files |-> "absent"]
  /\ cpc = [c \in Callers |-> "idle"]
  /\ cres = [c \in Callers |-> 0]
  /\ cused = [c \in Callers |-> 0]
  /\ ckind = [c \in Callers |-> "session"]
  /\ clogin = [c \in Callers |-> FALSE]

CoreInit ==
  /\ BaseInit
  /\ metadataCache = [f \in Files |-> "absent"]

\* the adapter-level specifications' variables at rest
LoginIdle == loginResp = NoReply /\ thrown = NoError
IdIdle == library = <<>> /\ links = {} /\ lookup = NoLookup
ParseIdle == parseArgs = NoParseArgs /\ parsed = NoParse
ScanIdle ==
  /\ audioFileList = <<>> /\ batchAt = 0 /\ pending = {} /\ settled = <<>>
  /\ audioFiles = <<>> /\ extraction = <<>>

Init ==
  /\ CoreInit
  /\ LoginIdle
  /\ IdIdle
  /\ ParseIdle
  /\ ScanIdle

Next ==
  \/ getHomeData
  \/ getSongDetails
  \/ getAlbumDetails
  \/ getArtistDetails
  \/ searchAll
  \/ getMegaMenu
  \/ getFooterDetails
  \/ getTopSearches
  \/ SynologyEntry
  \/ getSynologySession
  \/ \E o \in LoginFailures \cup {"ok"} : LoginResponse(o)
  \/ LoginTimeout
  \/ ListResponse
  \/ ListTimeout
  \/ extractAudioMetadata
  \/ \E o \in DownloadOutcomes : DownloadResponse(o)
  \/ DownloadTimeout
  \/ SynologyFinish
  \/ plexApiCall
  \/ \E o \in {"ok", "no_item", "fail"} : PlexResponse(o)
  \/ jiosaavnCall
  \/ \E o \in {"ok", "fail"} : jiosaavnResponse(o)
  \/ Tick

Spec == Init /\ [][Next]_vars

(***************************************************************************)
(* SessionSpec: concurrent callers of the session cache.  Each synchronous *)
(* stretch of getSynologySession (up to the awaited fetch, and from the    *)
(* response to the return or throw) is one step.                           *)
(***************************************************************************)
reqVars == <<op, token, pc, called, net, inflight, result, sessAt, scanVars,
             cache0, step>>

coreVars == <<env, now, sessVars, metadataCache, reqVars, concVars>>

ConfiguredEnv ==
  [SYNOLOGY_SERVER_URL |-> Real, SYNOLOGY_USERNAME |-> Real,
   SYNOLOGY_PASSWORD |-> Real, PLEX_URL |-> Unset, PLEX_TOKEN |-> Unset,
   API_PROVIDER |-> "jiosaavn"]

\* the caller holds a session id: a bare call returns it, fileStationApiCall
\* puts it in the _sid parameter of its request
CallerHasSession(c, sid, loggedIn) ==
  /\ cres' = [cres EXCEPT ![c] = sid]
  /\ clogin' = [clogin EXCEPT ![c] = loggedIn]
  /\ IF ckind'[c] = "fs"
     THEN cpc' = [cpc EXCEPT ![c] = "fs_wait"] /\ cused' = [cused EXCEPT ![c] = sid]
     ELSE cpc' = [cpc EXCEPT ![c] = "returned"] /\ cused' = [cused EXCEPT ![c] = 0]

\* entry of getSynologySession: the cache check and, on a miss, the login fetch
CallerGetSession(c, k) ==
  /\ cpc[c] = "idle"
  /\ checkSynologyConfigured(env)
  /\ ckind' = [ckind EXCEPT ![c] = k]
  /\ IF sessionValid(sessionId, sessionExpiry, now)
     THEN CallerHasSession(c, sessionId, FALSE)
     ELSE /\ cpc' = [cpc EXCEPT ![c] = "login_wait"]
          /\ cres' = [cres EXCEPT ![c] = 0]
          /\ cused' = [cused EXCEPT ![c] = 0]
          /\ clogin' = [clogin EXCEPT ![c] = TRUE]
  /\ UNCHANGED <<env, now, sessVars, metadataCache, reqVars, extVars>>

CallerLoginResponse(c, o) ==
  /\ cpc[c] = "login_wait"
  /\ o \in LoginOutcomes(env, nextSid) \cup {"timeout"}
  /\ IF o = "ok"
     THEN /\ nextSid' = nextSid + 1
          /\ sessionId' = storeSession(nextSid + 1, sessionExpiry, now).sessionId
          /\ sessionExpiry' = storeSession(nextSid + 1, sessionExpiry, now).sessionExpiry
          /\ loginAt' = [loginAt EXCEPT ![nextSid + 1] = now]
          /\ ckind' = ckind
          \* "return sessionId": the module variable just assigned
          /\ CallerHasSession(c, sessionId', TRUE)
     ELSE /\ sessionId' = clearSession(sessionId).sessionId
          /\ sessionExpiry' = clearSession(sessionId).sessionExpiry
          /\ cpc' = [cpc EXCEPT ![c] = "threw"]
          /\ UNCHANGED <<nextSid, loginAt, cres, cused, ckind, clogin>>
  /\ UNCHANGED <<env, now, metadataCache, reqVars, extVars>>

\* the File Station request completes; its catch block only logs and rethrows
CallerFileStationResponse(c, ok) ==
  /\ cpc[c] = "fs_wait"
  /\ cpc' = [cpc EXCEPT ![c] = IF ok THEN "returned" ELSE "threw"]
  /\ UNCHANGED <<env, now, sessVars, metadataCache, reqVars, extVars, cres, cused,
                 ckind, clogin>>

\* the awaiting caller takes the value or the exception
CallerDone(c) ==
  /\ cpc[c] \in {"returned", "threw"}
  /\ cpc' = [cpc EXCEPT ![c] = "idle"]
  /\ UNCHANGED <<env, now, sessVars, metadataCache, reqVars, extVars, cres, cused,
                 ckind, clogin>>

SessionInit ==
  /\ Init
  /\ env = ConfiguredEnv

SessionNext ==
  \/ \E c \in Callers, k \in {"session", "fs"} : CallerGetSession(c, k)
  \/ \E c \in Callers, o \in LoginFailures \cup {"ok", "timeout"} :
       CallerLoginResponse(c, o)
  \/ \E c \in Callers, ok \in BOOLEAN : CallerFileStationResponse(c, ok)
  \/ \E c \in Callers : CallerDone(c)
  \/ Tick

SessionSpec == SessionInit /\ [][SessionNext]_vars

(***************************************************************************)
(* LoginSpec: successive getSynologySession calls against a NAS whose      *)
(* login reply is any body the code can parse, an HTTP error, or no reply. *)
(***************************************************************************)
\* entry: a valid cached session is returned, otherwise the login is sent
AuthCall ==
  /\ pc = "idle"
  /\ inflight = NoRequest
  /\ checkSynologyConfigured(env)
  /\ loginResp' = NoReply
  /\ thrown' = NoError
  /\ IF sessionValid(sessionId, sessionExpiry, now)
     THEN UNCHANGED <<net, inflight>>
     ELSE Send(LoginRequest)
  /\ UNCHANGED <<env, now, sessVars, metadataCache, op, token, pc, called,
                 result, sessAt, scanVars, cache0, step, concVars, idVars, parseVars,
                 batchVars, plexVars, moreVars>>

\* the catch block: clear the session, throw
AuthFailed(k) ==
  /\ sessionId' = clearSession(sessionId).sessionId
  /\ sessionExpiry' = clearSession(sessionId).sessionExpiry
  /\ thrown' = loginError(k)
  /\ UNCHANGED <<nextSid, loginAt>>

AuthReply(r) ==
  /\ inflight = LoginRequest
  /\ pc = "idle"
  /\ r \in LoginReplies
  /\ loginFailure(r) = "ok" => nextSid < MaxLogins
  /\ inflight' = NoRequest
  /\ loginResp' = r
  /\ IF loginFailure(r) = "ok"
     THEN /\ nextSid' = nextSid + 1
          /\ sessionId' = storeSession(nextSid + 1, sessionExpiry, now).sessionId
          /\ sessionExpiry' = storeSession(nextSid + 1, sessionExpiry, now).sessionExpiry
          /\ loginAt' = [loginAt EXCEPT ![nextSid + 1] = now]
          /\ thrown' = NoError
     ELSE AuthFailed(loginFailure(r))
  /\ UNCHANGED <<env, now, metadataCache, op, token, pc, called, net, result,
                 sessAt, scanVars, cache0, step, concVars, idVars, parseVars,
                 batchVars, plexVars, moreVars>>

\* fetch rejects (k = "network_error") or the 8 s timer aborts it
AuthReject(k) ==
  /\ inflight = LoginRequest
  /\ pc = "idle"
  /\ k = "timeout" => inflight.timeout
  /\ inflight' = NoRequest
  /\ loginResp' = NoReply
  /\ AuthFailed(k)
  /\ UNCHANGED <<env, now, metadataCache, op, token, pc, called, net, result,
                 sessAt, scanVars, cache0, step, concVars, idVars, parseVars,
                 batchVars, plexVars, moreVars>>

LoginInit ==
  /\ Init
  /\ env = ConfiguredEnv

LoginNext ==
  \/ AuthCall
  \/ \E r \in LoginReplies : AuthReply(r)
  \/ \E k \in {"network_error", "timeout"} : AuthReject(k)
  \/ Tick

LoginSpec == LoginInit /\ [][LoginNext]_vars

(***************************************************************************)
(* Identifiers (synology-api.ts).  A string is the sequence of its code     *)
(* points, a Buffer the sequence of its bytes.                             *)
(***************************************************************************)
RECURSIVE utf8Encode(_)
\* Buffer.from(string): UTF-8
utf8Encode(s) ==
  IF s = <<>> THEN <<>>
  ELSE LET c == Head(s)
           b == IF c < 128 THEN <<c>>
                ELSE IF c < 2048 THEN <<192 + (c \div 64), 128 + (c % 64)>>
                ELSE <<224 + (c \div 4096), 128 + ((c \div 64) % 64), 128 + (c % 64)>>
       IN  b \o utf8Encode(Tail(s))

IsContinuation(b) == b >= 128 /\ b < 192

RECURSIVE utf8Decode(_)
\* buffer.toString("utf-8"): an ill-formed sequence decodes to U+FFFD
utf8Decode(b) ==
  IF b = <<>> THEN <<>>
  ELSE LET x == Head(b)
           n == Len(b)
       IN  IF x < 128 THEN <<x>> \o utf8Decode(Tail(b))
           ELSE IF x >= 194 /\ x < 224 /\ n >= 2 /\ IsContinuation(b[2])
                THEN <<(x - 192) * 64 + (b[2] - 128)>> \o utf8Decode(SubSeq(b, 3, n))
           ELSE IF x >= 224 /\ x < 240 /\ n >= 3 /\ IsContinuation(b[2])
                   /\ IsContinuation(b[3])
                   /\ (x - 224) * 4096 + (b[2] - 128) * 64 + (b[3] - 128) >= 2048
                THEN <<(x - 224) * 4096 + (b[2] - 128) * 64 + (b[3] - 128)>>
                     \o utf8Decode(SubSeq(b, 4, n))
           ELSE <<65533>> \o utf8Decode(Tail(b))

\* the base64 alphabet: A-Z a-z 0-9 + /
base64Char(i) ==
  IF i < 26 THEN 65 + i
  ELSE IF i < 52 THEN 97 + (i - 26)
  ELSE IF i < 62 THEN 48 + (i - 52)
  ELSE IF i = 62 THEN 43 ELSE 47

\* buffer.toString("base64"): each group of three bytes gives four characters,
\* a last group of one or two bytes is padded with "=" (61)
base64Encode(b) ==
  LET n == Len(b)
      At(k) == IF k <= n THEN b[k] ELSE 0
      Char(i) ==
        LET g == 3 * ((i - 1) \div 4)
            k == (i - 1) % 4
        IN  IF k = 0 THEN base64Char(At(g + 1) \div 4)
            ELSE IF k = 1
                 THEN base64Char((At(g + 1) % 4) * 16 + (At(g + 2) \div 16))
            ELSE IF k = 2
                 THEN IF g + 2 > n THEN 61
                      ELSE base64Char((At(g + 2) % 16) * 4 + (At(g + 3) \div 64))
            ELSE IF g + 3 > n THEN 61 ELSE base64Char(At(g + 3) % 64)
  IN  [i \in 1..(4 * ((n + 2) \div 3)) |-> Char(i)]

\* string.replace(/c/g, d) for single characters c and d
replaceAll(s, c, d) == [i \in DOMAIN s |-> IF s[i] = c THEN d ELSE s[i]]

\* string.replace(/[...]/g, "") for a set of characters
removeAll(s, cs) == LET Keep(x) == x \notin cs IN SelectSeq(s, Keep)

\* .replace(/\+/g, "-").replace(/\//g, "_").replace(/=/g, "")
urlSafe(s) == removeAll(replaceAll(replaceAll(s, 43, 45), 47, 95), {61})

\* .replace(/[+/=]/g, "")
stripSpecial(s) == removeAll(s, {43, 47, 61})

\* value of a character for the base64 decoder of Buffer.from, which reads
\* both alphabets; 64: not a base64 character
base64Value(c) ==
  IF c >= 65 /\ c <= 90 THEN c - 65
  ELSE IF c >= 97 /\ c <= 122 THEN c - 97 + 26
  ELSE IF c >= 48 /\ c <= 57 THEN c - 48 + 52
  ELSE IF c = 43 \/ c = 45 THEN 62
  ELSE IF c = 47 \/ c = 95 THEN 63
  ELSE 64

\* the decoder skips every character that is not in the alphabet
base64Values(s) ==
  LET Valid(c) == base64Value(c) < 64
      v == SelectSeq(s, Valid)
  IN  [i \in DOMAIN v |-> base64Value(v[i])]

\* four characters give three bytes; a last group of two or three characters
\* gives one or two bytes, a single left-over character none
base64Bytes(v) ==
  LET n == Len(v)
      Byte(i) ==
        LET g == 4 * ((i - 1) \div 3)
            k == (i - 1) % 3
        IN  IF k = 0 THEN v[g + 1] * 4 + (v[g + 2] \div 16)
            ELSE IF k = 1 THEN (v[g + 2] % 16) * 16 + (v[g + 3] \div 4)
            ELSE (v[g + 3] % 4) * 64 + v[g + 4]
  IN  [i \in 1..((n * 6) \div 8) |-> Byte(i)]

\* Buffer.from(string, "base64"): never throws
base64Decode(s) == base64Bytes(base64Values(s))

RECURSIVE padBase64(_)
\* while (base64.length % 4) base64 += "="
padBase64(s) == IF Len(s) % 4 = 0 THEN s ELSE padBase64(Append(s, 61))

\* the identifier of a key: URL-safe base64 without padding
encodeToken_Strip(key) == stripSpecial(base64Encode(utf8Encode(key)))

encodeToken(key) == urlSafe(base64Encode(utf8Encode(key)))

\* the try block that decodes a token; ok = FALSE is its catch branch
decodeToken(tok) ==
  [ok |-> TRUE,
   value |-> utf8Decode(base64Decode(
               padBase64(replaceAll(replaceAll(tok, 45, 43), 95, 47))))]

(***************************************************************************)
(* IdSpec: the identifiers the file-index adapter emits and the lookups    *)
(* made with them, over the files of one scan.                             *)
(***************************************************************************)
MaxNameLen == 2

\* "a", "-", "~", U+00FF
NameChars == {97, 45, 126, 255}
Names == UNION {[1..n -> NameChars] : n \in 1..MaxNameLen}
\* "a", "a-~", U+00FF
AlbumNames == {<<97>>, <<97, 45, 126>>, <<255>>}
\* "z"
OtherName == <<122>>
\* ".mp3"
Ext == <<46, 109, 112, 51>>

\* an AudioFileInfo: /<artist>/<album>/<title>.mp3 with its metadata
Track(a, b, t) ==
  [path |-> <<47>> \o a \o <<47>> \o b \o <<47>> \o t \o Ext,
   name |-> t \o Ext, title |-> t, artist |-> a, album |-> b]

Library(a, b) ==
  <<Track(a, b, <<49>>), Track(a, b, <<50, 50>>), Track(a, OtherName, <<49>>),
    Track(OtherName, b, <<49>>)>>

\* string.toLowerCase()
toLowerCase(s) == [i \in DOMAIN s |-> IF s[i] >= 65 /\ s[i] <= 90 THEN s[i] + 32 ELSE s[i]]

\* string.includes(q)
Includes(s, q) ==
  \E i \in 0..(Len(s) - Len(q)) : SubSeq(s, i + 1, i + Len(q)) = q

RECURSIVE Split(_, _)
\* string.split(sep)
Split(s, sep) ==
  LET at == {i \in 1..(Len(s) - Len(sep) + 1) : SubSeq(s, i, i + Len(sep) - 1) = sep}
  IN  IF at = {} THEN <<s>>
      ELSE LET i == CHOOSE x \in at : \A y \in at : x <= y
           IN  <<SubSeq(s, 1, i - 1)>> \o Split(SubSeq(s, i + Len(sep), Len(s)), sep)

\* a destructured array element that is not there
Undefined == <<-1>>

Link(kind, from, id, tok, artist, album, path) ==
  [kind |-> kind, from |-> from, id |-> id, token |-> tok, artist |-> artist,
   album |-> album, path |-> path]

\* id and url of the Song mapped from a file
mapFileToSong(f) ==
  Link("song", "mapFileToSong", encodeToken(f.path), encodeToken(f.path),
       f.artist, f.album, f.path)

Matching(files, P(_)) == SelectSeq(files, P)

FirstWith(files, P(_)) == files[CHOOSE i \in 1..Len(files) :
                                 P(files[i]) /\ \A j \in 1..(i - 1) : ~P(files[j])]

\* the tokens a page passes: the links of the result it shows, or a raw key
\* (a file path, an "artist-album" key, an artist name)
TokensOf(kind) == {l.token : l \in {x \in links : x.kind = kind}}
SongTokens == TokensOf("song") \cup {library[i].path : i \in 1..Len(library)}
AlbumTokens ==
  TokensOf("album")
    \cup {library[i].artist \o <<45>> \o library[i].album : i \in 1..Len(library)}
ArtistTokens == TokensOf("artist") \cup {library[i].artist : i \in 1..Len(library)}
Queries == {library[i].artist : i \in 1..Len(library)}
             \cup {library[i].album : i \in 1..Len(library)}

\* getSongDetails(token): the decoded path is looked up with allFiles.find;
\* a token without file ends in a thrown error
synGetSongDetails(tok) ==
  /\ pc = "idle" /\ library # <<>>
  /\ tok \in SongTokens
  /\ LET d == decodeToken(tok)
         found == IF d.ok THEN {f \in Range(library) : f.path = d.value} ELSE {}
     IN  /\ lookup' = [op |-> "getSongDetails", token |-> tok, artist |-> <<>>,
                       album |-> <<>>, files |-> found, threw |-> found = {}]
         /\ links' = {mapFileToSong(f) : f \in found}
  /\ UNCHANGED <<coreVars, loginVars, parseVars, batchVars, plexVars, moreVars, library>>

\* getAlbumDetails(token)
synGetAlbumDetails(tok) ==
  /\ pc = "idle" /\ library # <<>>
  /\ tok \in AlbumTokens
  /\ LET d == decodeToken(tok)
         albumKey == IF d.ok THEN d.value ELSE tok
         parts == Split(albumKey, <<45>>)
         artistName == parts[1]
         albumName == IF Len(parts) >= 2 THEN parts[2] ELSE Undefined
         albumFiles == {f \in Range(library) :
                          f.artist = artistName /\ f.album = albumName}
     IN  /\ lookup' = [op |-> "getAlbumDetails", token |-> tok,
                       artist |-> artistName, album |-> albumName,
                       files |-> albumFiles, threw |-> FALSE]
         /\ links' = {mapFileToSong(f) : f \in albumFiles}
  /\ UNCHANGED <<coreVars, loginVars, parseVars, batchVars, plexVars, moreVars, library>>

\* getArtistDetails(token): top_songs and top_albums of the decoded artist
synGetArtistDetails(tok) ==
  /\ pc = "idle" /\ library # <<>>
  /\ tok \in ArtistTokens
  /\ LET d == decodeToken(tok)
         artistName == IF d.ok THEN d.value ELSE tok
         artistFiles == {f \in Range(library) : f.artist = artistName}
         albums == {Link("album", "getArtistDetails",
                         stripSpecial(base64Encode(utf8Encode(f.album))),
                         encodeToken(artistName \o <<45>> \o f.album),
                         artistName, f.album, <<>>) : f \in artistFiles}
     IN  /\ links' = albums \cup {mapFileToSong(f) : f \in artistFiles}
         /\ lookup' = [op |-> "getArtistDetails", token |-> tok,
                       artist |-> artistName, album |-> <<>>,
                       files |-> artistFiles, threw |-> FALSE]
  /\ UNCHANGED <<coreVars, loginVars, parseVars, batchVars, plexVars, moreVars, library>>

\* searchAll(query): songs, artists and albums of the matching files
synSearchAll(q) ==
  /\ pc = "idle" /\ library # <<>>
  /\ q \in Queries
  /\ LET queryLower == toLowerCase(q)
         Hit(f) == \/ Includes(toLowerCase(f.name), queryLower)
                   \/ Includes(toLowerCase(f.artist), queryLower)
                   \/ Includes(toLowerCase(f.album), queryLower)
                   \/ Includes(toLowerCase(f.title), queryLower)
         matchingFiles == Matching(library, Hit)
         artists == {Link("artist", "searchAll", encodeToken_Strip(f.artist),
                          encodeToken(f.artist), f.artist, <<>>, <<>>) :
                       f \in Range(matchingFiles)}
         albums == {LET SameAlbum(g) == g.album = f.album
                    IN  Link("album", "searchAll", encodeToken(f.album),
                             encodeToken(f.album),
                             FirstWith(matchingFiles, SameAlbum).artist,
                             f.album, <<>>) : f \in Range(matchingFiles)}
     IN  /\ links' = artists \cup albums
                        \cup {mapFileToSong(f) : f \in Range(matchingFiles)}
         /\ lookup' = [op |-> "searchAll", token |-> q, artist |-> <<>>,
                       album |-> <<>>, files |-> Range(matchingFiles),
                       threw |-> FALSE]
  /\ UNCHANGED <<coreVars, loginVars, parseVars, batchVars, plexVars, moreVars, library>>

IdInit ==
  /\ CoreInit
  /\ env = ConfiguredEnv
  /\ LoginIdle
  /\ library \in {Library(a, b) : a \in Names, b \in AlbumNames}
  /\ links = {}
  /\ lookup = NoLookup
  /\ ParseIdle
  /\ ScanIdle

IdNext ==
  \/ \E q \in Queries : synSearchAll(q)
  \/ \E tok \in ArtistTokens : synGetArtistDetails(tok)
  \/ \E tok \in AlbumTokens : synGetAlbumDetails(tok)
  \/ \E tok \in SongTokens : synGetSongDetails(tok)

IdSpec == IdInit /\ [][IdNext]_vars

(***************************************************************************)
(* SongsSpec: getSongDetails with a list of tokens                         *)
(***************************************************************************)
MaxTokens == 2

\* a path no scanned file has
MissingPath == <<47, 122>>

\* the tokens a caller passes: the ids of two scanned files and one more
ListTokens ==
  {encodeToken(library[1].path), encodeToken(library[2].path), encodeToken(MissingPath)}

TokenLists == UNION {[1..n -> ListTokens] : n \in 0..MaxTokens}

\* allFiles.find(f => f.path === filePath): the position of the file, NoFile
\* for undefined
findFile(filePath) ==
  LET at == {i \in 1..Len(library) : library[i].path = filePath}
  IN  IF at = {} THEN NoFile ELSE CHOOSE j \in at : \A k \in at : j <= k

\* fileIds.map(decode and find).filter(file => file !== null): the decoder never
\* throws, so no entry is null and an undefined one stays
foundFiles(toks) == [i \in 1..Len(toks) |-> findFile(decodeToken(toks[i]).value)]

\* getSongDetails(token[]): mapFileToSong reads file.path of every entry
synGetSongDetailsList(toks) ==
  /\ pc = "idle" /\ library # <<>>
  /\ toks \in TokenLists
  /\ LET files == foundFiles(toks)
     IN  songObj' =
           IF \E i \in 1..Len(files) : files[i] = NoFile
           THEN [tokens |-> toks, songs |-> <<>>, error |-> "TypeError"]
           ELSE IF Len(files) = 0
           THEN [tokens |-> toks, songs |-> <<>>, error |-> "No songs found"]
           ELSE [tokens |-> toks,
                 songs |-> [i \in 1..Len(files) |-> mapFileToSong(library[files[i]])],
                 error |-> "none"]
  /\ UNCHANGED <<coreVars, loginVars, idVars, parseVars, batchVars, plexVars,
                 trackVars, rendering, lateVars>>

SongsInit ==
  /\ CoreInit
  /\ env = ConfiguredEnv
  /\ LoginIdle
  /\ library \in {Library(a, b) : a \in AlbumNames, b \in AlbumNames}
  /\ links = {}
  /\ lookup = NoLookup
  /\ ParseIdle
  /\ ScanIdle

SongsNext == \E toks \in TokenLists : synGetSongDetailsList(toks)

SongsSpec == SongsInit /\ [][SongsNext]_vars

(***************************************************************************)
(* ParseSpec: parseAudioFileName applied to the name and the folder of an  *)
(* audio file.                                                             *)
(***************************************************************************)
MaxParts == 3
MaxDepth == 2

\* filename.replace(/\.[^/.]+$/, ""): the last "." and what follows it, when
\* at least one character follows and none of them is a "/"
stripExtension(s) ==
  LET dots == {i \in 1..(Len(s) - 1) :
                 s[i] = 46 /\ \A j \in (i + 1)..Len(s) : s[j] \notin {46, 47}}
  IN  IF dots = {} THEN s
      ELSE SubSeq(s, 1, (CHOOSE i \in dots : TRUE) - 1)

\* .filter(Boolean) on an array of strings
nonEmpty(q) == LET Full(x) == x # <<>> IN SelectSeq(q, Full)

\* /^\d+$/.test(s)
IsDigits(s) == s # <<>> /\ \A i \in 1..Len(s) : s[i] >= 48 /\ s[i] <= 57

RECURSIVE parseInt(_)
\* parseInt(s, 10) of a string of digits
parseInt(s) ==
  IF s = <<>> THEN 0
  ELSE 10 * parseInt(SubSeq(s, 1, Len(s) - 1)) + (s[Len(s)] - 48)

\* "Unknown Artist", "Unknown Album"
UnknownArtist == <<85, 110, 107, 110, 111, 119, 110, 32, 65, 114, 116, 105, 115, 116>>
UnknownAlbum == <<85, 110, 107, 110, 111, 119, 110, 32, 65, 108, 98, 117, 109>>

\* a || b on strings and missing array elements
OrElse(a, b) == IF a # <<>> /\ a # Undefined THEN a ELSE b

\* array[i], undefined outside the array
ElementAt(q, i) == IF i >= 1 /\ i <= Len(q) THEN q[i] ELSE Undefined

parseAudioFileName_FilenameFirst(filename, folderPath) ==
  LET nameWithoutExt == stripExtension(filename)
      parts == Split(nameWithoutExt, <<32, 45, 32>>)
      pathParts == nonEmpty(Split(folderPath, <<47>>))
      n == Len(parts)
  IN  [artist |-> OrElse(ElementAt(parts, 1),
                         OrElse(ElementAt(pathParts, Len(pathParts) - 1), UnknownArtist)),
       album |-> OrElse(ElementAt(parts, 2),
                        OrElse(ElementAt(pathParts, Len(pathParts)), UnknownAlbum)),
       title |-> IF n >= 2 THEN parts[n] ELSE nameWithoutExt,
       track |-> IF n >= 3 /\ IsDigits(parts[n - 1]) THEN parseInt(parts[n - 1]) ELSE 0]

parseAudioFileName(filename, folderPath) ==
  LET nameWithoutExt == stripExtension(filename)
      parts == Split(nameWithoutExt, <<32, 45, 32>>)
      pathParts == nonEmpty(Split(folderPath, <<47>>))
      n == Len(parts)
  IN  [artist |-> OrElse(ElementAt(pathParts, Len(pathParts) - 1),
                         OrElse(ElementAt(parts, 1), UnknownArtist)),
       album |-> OrElse(ElementAt(pathParts, Len(pathParts)),
                        OrElse(ElementAt(parts, 2), UnknownAlbum)),
       title |-> IF n >= 2 THEN parts[n] ELSE nameWithoutExt,
       track |-> IF n >= 3 /\ IsDigits(parts[n - 1]) THEN parseInt(parts[n - 1]) ELSE 0]

\* the pieces file names are made of: "", "a", "7", "07", "a.b", "a-b"
Segments == {<<>>, <<97>>, <<55>>, <<48, 55>>, <<97, 46, 98>>, <<97, 45, 98>>}
\* folder names: "A", "Bb"
FolderNames == {<<65>>, <<66, 98>>}

RECURSIVE Join(_, _)
Join(q, sep) ==
  IF q = <<>> THEN <<>>
  ELSE IF Len(q) = 1 THEN q[1]
  ELSE q[1] \o sep \o Join(Tail(q), sep)

\* <segment> - <segment> - ... .mp3 in the folder /<folder>/<folder>
ParseInputs ==
  {[filename |-> Join(segs, <<32, 45, 32>>) \o Ext,
    folderPath |-> IF dirs = <<>> THEN <<>> ELSE <<47>> \o Join(dirs, <<47>>),
    segments |-> segs, folders |-> dirs] :
     segs \in UNION {[1..n -> Segments] : n \in 1..MaxParts},
     dirs \in UNION {[1..n -> FolderNames] : n \in 0..MaxDepth}}

CallParse ==
  /\ parsed = NoParse
  /\ parseArgs # NoParseArgs
  /\ parsed' = parseAudioFileName(parseArgs.filename, parseArgs.folderPath)
  /\ UNCHANGED <<coreVars, loginVars, idVars, batchVars, plexVars, moreVars, parseArgs>>

ParseInit ==
  /\ CoreInit
  /\ env = ConfiguredEnv
  /\ LoginIdle
  /\ IdIdle
  /\ parseArgs \in ParseInputs
  /\ parsed = NoParse
  /\ ScanIdle

ParseNext == CallParse

ParseSpec == ParseInit /\ [][ParseNext]_vars

(***************************************************************************)
(* ScanSpec: findAudioFiles over a listing of audio files.  The callbacks  *)
(* of one batch run up to their fetch in one synchronous stretch; the      *)
(* responses arrive in any order; Promise.all resolves when none is        *)
(* pending.  A file is its position in the listing.                        *)
(***************************************************************************)
maxFiles == 50
batchSize == 5
MaxOver == 2

\* duration (seconds) in the tags of a file that has tags; no duration field
TagSeconds == 180
NoDuration == -1

\* lengths of the listing: around the cap
ListLengths == (maxFiles - MaxOver)..(maxFiles + MaxOver)

\* the files without readable tags: the last one of the first batch
UntaggedFiles == {batchSize}

\* the listing carries each file's mtime; the NAS lists oldest first or
\* newest first
Listing(n, order) ==
  [f \in 1..n |-> [mtime |-> IF order = "oldest_first" THEN f ELSE n + 1 - f,
                   tagged |-> f \notin UntaggedFiles]]

\* the files whose download can fail in transport: the first of the first
\* and of the second batch, the last one under the cap
FlakyFiles == {1, batchSize + 1, maxFiles}

\* what the download of f can come to
OutcomesOf(f) ==
  IF ~audioFileList[f].tagged THEN {"empty_body", "parse_error"}
  ELSE IF f \in FlakyFiles THEN {"tags", "bad_status", "network_error", "timeout"}
  ELSE {"tags"}

\* audioFileList.slice(0, maxFiles), as the last position taken
filesToProcess(list) == IF Len(list) < maxFiles THEN Len(list) ELSE maxFiles

\* filesToProcess.slice(i, i + batchSize)
batchOf_Rest(i, k) == (i + 1)..k

batchOf(i, k) == (i + 1)..(IF i + batchSize < k THEN i + batchSize ELSE k)

\* the AudioFileInfo the batch callback builds from what extractAudioMetadata
\* returned ("tags": the extracted tags, otherwise defaultMetadata)
batchInfo_TagsAnyway(f, entry) ==
  [file |-> f, meta |-> "tags", duration |-> TagSeconds, via |-> "batch"]

batchInfo(f, entry) ==
  [file |-> f, meta |-> MetaOf(entry),
   duration |-> IF entry = "tags" THEN TagSeconds ELSE NoDuration,
   via |-> "batch"]

\* the AudioFileInfo of a file beyond the cap
remainingInfo(f) ==
  [file |-> f, meta |-> "heuristic", duration |-> NoDuration, via |-> "remaining"]

\* mapFileToSong: duration = file.duration || 0
songDuration(info) == IF info.duration = NoDuration THEN 0 ELSE info.duration

notScanVars == <<env, now, sessVars, op, token, called, inflight, result, sessAt,
                 scanVars, cache0, step, concVars, loginVars, idVars, parseVars,
                 plexVars, moreVars>>

\* batch.map(async file => ...): a cached file resolves without a request,
\* the others have their download request issued
LaunchBatch(i, issued, sofar) ==
  LET batch == batchOf(i, filesToProcess(audioFileList))
      hits == {f \in batch : cacheHit(metadataCache, f)}
  IN  /\ batchAt' = i
      /\ pending' = batch \ hits
      /\ settled' = [f \in hits |-> metadataCache[f]]
      /\ net' = issued \cup {DownloadRequest(f) : f \in batch \ hits}
      /\ extraction' = [f \in DOMAIN sofar |->
                          IF f \in hits THEN "cached_" \o metadataCache[f]
                          ELSE sofar[f]]
      /\ pc' = "scan_wait"

\* after the loop: the files beyond the cap are pushed with fallback metadata
FinishScan(collected) ==
  /\ audioFiles' = collected \o
       [j \in 1..(Len(audioFileList) - filesToProcess(audioFileList)) |->
          remainingInfo(filesToProcess(audioFileList) + j)]
  /\ pc' = "scan_done"

\* entry, once listFiles and getSynologySession have returned
findAudioFiles ==
  /\ pc \in {"idle", "scan_done"}
  /\ audioFileList # <<>>
  /\ audioFiles' = <<>>
  /\ LaunchBatch(0, {}, [f \in 1..Len(audioFileList) |-> "none"])
  /\ UNCHANGED <<notScanVars, metadataCache, audioFileList>>

\* the download of f comes back (o), or its 5 s timer aborts it
ExtractionDone(f, o) ==
  /\ pc = "scan_wait"
  /\ f \in pending
  /\ o \in OutcomesOf(f)
  /\ pending' = pending \ {f}
  /\ settled' = [g \in DOMAIN settled \cup {f} |-> IF g = f THEN o ELSE settled[g]]
  /\ metadataCache' = [metadataCache EXCEPT ![f] = cacheWrite(@, o)]
  /\ extraction' = [extraction EXCEPT ![f] = IF o = "tags" THEN "tags" ELSE "failed"]
  /\ UNCHANGED <<notScanVars, pc, net, audioFileList, batchAt, audioFiles>>

\* Promise.all(batchPromises) resolves: push the batch in list order, then
\* the next batch, or the rest of the function
BatchSettled ==
  /\ pc = "scan_wait"
  /\ pending = {}
  /\ LET k == filesToProcess(audioFileList)
         batch == batchOf(batchAt, k)
         collected == audioFiles \o
                        [j \in 1..Cardinality(batch) |->
                           batchInfo(batchAt + j, settled[batchAt + j])]
     IN  IF batchAt + batchSize < k
         THEN /\ audioFiles' = collected
              /\ LaunchBatch(batchAt + batchSize, net, extraction)
         ELSE /\ FinishScan(collected)
              /\ settled' = <<>>
              /\ UNCHANGED <<batchAt, pending, net, extraction>>
  /\ UNCHANGED <<notScanVars, metadataCache, audioFileList>>

ScanInit ==
  /\ BaseInit
  /\ env = ConfiguredEnv
  /\ LoginIdle
  /\ IdIdle
  /\ ParseIdle
  /\ \E n \in ListLengths, order \in {"oldest_first", "newest_first"} :
       /\ audioFileList = Listing(n, order)
       /\ metadataCache = [f \in 1..n |-> "absent"]
  /\ batchAt = 0
  /\ pending = {}
  /\ settled = <<>>
  /\ audioFiles = <<>>
  /\ extraction = <<>>

ScanNext ==
  \/ findAudioFiles
  \/ \E f \in pending : \E o \in OutcomesOf(f) : ExtractionDone(f, o)
  \/ BatchSettled

ScanSpec == ScanInit /\ [][ScanNext]_vars

(***************************************************************************)
(* PlexSpec: the exported operations of the home-media adapter called      *)
(* directly, under every configuration                                     *)
(***************************************************************************)
PlexOperation(o) ==
  /\ pc \in {"idle", "done"}
  /\ op' = o
  /\ token' = NoFile
  /\ net' = {}
  /\ inflight' = NoRequest
  /\ step' = 0
  /\ ApplyRouter([pc |-> EntryPc("plex"), called |-> <<"plex">>, result |-> NoResult])
  /\ discovery' = NotDiscovered
  /\ sectionId' = NoSection
  /\ plexCalls' = <<>>
  /\ UNCHANGED <<env, now, sessVars, metadataCache, sessAt, scanVars, cache0,
                 concVars, adapterVars>>

PlexInit == Init

PlexNext ==
  \/ \E o \in Ops : PlexOperation(o)
  \/ plexApiCall
  \/ \E o \in {"ok", "no_item", "fail"} : PlexResponse(o)

PlexSpec == PlexInit /\ [][PlexNext]_vars

(***************************************************************************)
(* TrackSpec: mapPlexTrackToSong on tracks with and without a duration     *)
(***************************************************************************)
MsPerSecond == 1000
MaxSpread == 3

\* whole seconds around the documented example, and 0
ExampleSeconds == 185
TrackSeconds == {0} \cup ((ExampleSeconds - MaxSpread)..(ExampleSeconds + MaxSpread))

\* a track's duration field: absent, or milliseconds
Durations ==
  {<<>>} \cup {<<sec * MsPerSecond + ms>> : sec \in TrackSeconds, ms \in {0, 1, 499, 500, 501, 999}}

\* ratingKey: absent, "7", "42"
RatingKeys == {<<>>, <<55>>, <<52, 50>>}

Tracks == [ratingKey : RatingKeys, duration : Durations]

\* Math.floor((plexTrack.duration || 0) / 1000), rounding instead
toSeconds_Round(duration) ==
  IF duration = <<>> THEN 0 ELSE (duration[1] + 500) \div MsPerSecond

\* Math.floor((plexTrack.duration || 0) / 1000)
toSeconds(duration) ==
  LET ms == IF duration = <<>> \/ duration = <<0>> THEN 0 ELSE duration[1]
  IN  ms \div MsPerSecond

\* the id and duration fields of the Song ("song-0" without ratingKey)
mapPlexTrackToSong(t) ==
  [id |-> IF t.ratingKey # <<>> THEN t.ratingKey ELSE <<115, 111, 110, 103, 45, 48>>,
   duration |-> toSeconds(t.duration)]

notTrackVars == <<coreVars, plexVars, loginVars, idVars, parseVars, batchVars,
                  rendering, songObj, lateVars>>

MapTrack(t) ==
  /\ plexTrack' = t
  /\ song' = mapPlexTrackToSong(t)
  /\ UNCHANGED notTrackVars

TrackInit == Init /\ env = ConfiguredEnv

TrackNext == \E t \in Tracks : MapTrack(t)

TrackSpec == TrackInit /\ [][TrackNext]_vars

(***************************************************************************)
(* PageSpec: the server components that consume the router: HomePage       *)
(* (getHomeData) and SiteFooter (getFooterDetails)                         *)
(***************************************************************************)
\* Object.entries(homedata): the sections of the module map, and whether one
\* of them has data.  The failure results: {} from the home-media adapter,
\* the empty module map from the catalog adapter, the three sections with
\* data: [] from the file-index adapter
homeEntries(r) ==
  IF r.kind = "data" THEN 3
  ELSE IF r.from = "synology" THEN 3 ELSE 0

homeHasData(r) ==
  /\ r.kind = "data"
  /\ r.from = "synology" => \E f \in Files : scanned[f] # "none"

\* HomePage: catch -> "unable to load"; no entries -> the empty state;
\* otherwise the sections with data (possibly none of them)
HomePage(r) ==
  IF r = Thrown THEN "unable_to_load"
  ELSE IF homeEntries(r) = 0 THEN "empty_state"
  ELSE IF homeHasData(r) THEN "sections"
  ELSE "nothing"

\* SiteFooter awaits getFooterDetails outside any try block
SiteFooter(r) ==
  IF r = Thrown THEN "unhandled_exception"
  ELSE IF r.kind = "data" THEN "links"
  ELSE "no_data_available"

Render ==
  /\ pc = "done"
  /\ op \in {"getHomeData", "getFooterDetails"}
  /\ pc' = "idle"
  /\ rendering' =
       [component |-> IF op = "getHomeData" THEN "HomePage" ELSE "SiteFooter",
        of |-> result,
        view |-> IF op = "getHomeData" THEN HomePage(result) ELSE SiteFooter(result)]
  /\ UNCHANGED <<env, now, sessVars, metadataCache, op, token, called, net,
                 inflight, result, sessAt, scanVars, cache0, step, concVars,
                 loginVars, idVars, parseVars, batchVars, plexVars, trackVars,
                 songObj, lateVars>>

PageInit == Init

PageNext ==
  \/ pc = "idle" /\ getHomeData
  \/ pc = "idle" /\ getFooterDetails
  \/ SynologyEntry
  \/ getSynologySession
  \/ \E o \in LoginFailures \cup {"ok"} : LoginResponse(o)
  \/ LoginTimeout
  \/ ListResponse
  \/ ListTimeout
  \/ extractAudioMetadata
  \/ \E o \in DownloadOutcomes : DownloadResponse(o)
  \/ DownloadTimeout
  \/ SynologyFinish
  \/ plexApiCall
  \/ \E o \in {"ok", "no_item", "fail"} : PlexResponse(o)
  \/ jiosaavnCall
  \/ \E o \in {"ok", "fail"} : jiosaavnResponse(o)
  \/ Render

PageSpec == PageInit /\ [][PageNext]_vars

(***************************************************************************)
(* WalkSpec: listFiles(basePath, true) as findAudioFiles calls it.  The    *)
(* folders of the share are numbered, folder 1 is basePath, parent[d] is   *)
(* the folder that holds d.  The list method of the file-browsing API      *)
(* has no recursive mode: a list request answers with the entries directly *)
(* in the folder, and the code walks the sub-folders itself.               *)
(***************************************************************************)
MaxDirs == 4
RootDir == 1

\* the finite folder trees with n folders
Trees(n) ==
  {p \in [1..n -> 0..n] :
     /\ p[RootDir] = 0
     /\ \A d \in 2..n : p[d] \in 1..(d - 1)}

RECURSIVE Ascending(_)
Ascending(S) ==
  IF S = {} THEN <<>>
  ELSE LET m == CHOOSE x \in S : \A y \in S : x <= y
       IN  <<m>> \o Ascending(S \ {m})

\* a directory entry names its folder, a file entry the folder that holds it
DirEntry(d) == [isdir |-> TRUE, dir |-> d]
FileEntry(d) == [isdir |-> FALSE, dir |-> d]

\* data.files of a successful list request for folder d
filesIn(w, d) ==
  (IF d \in w.withFile THEN <<FileEntry(d)>> ELSE <<>>)
    \o [i \in 1..Cardinality({c \in DOMAIN w.parent : w.parent[c] = d}) |->
          DirEntry(Ascending({c \in DOMAIN w.parent : w.parent[c] = d})[i])]

\* the directories among listed entries, in their order
RECURSIVE subDirs(_)
subDirs(files) ==
  IF files = <<>> THEN <<>>
  ELSE (IF Head(files).isdir THEN <<Head(files).dir>> ELSE <<>>)
         \o subDirs(Tail(files))

\* files.filter(file => !file.isdir && isAudioFile(file.name))
RECURSIVE audioFileListOf(_)
audioFileListOf(files) ==
  IF files = <<>> THEN <<>>
  ELSE (IF ~Head(files).isdir THEN <<Head(files)>> ELSE <<>>)
         \o audioFileListOf(Tail(files))

notWalkVars == <<coreVars, plexVars, loginVars, idVars, parseVars, batchVars,
                 trackVars, rendering, songObj, roots, authz>>

\* findAudioFiles' catch: whatever was thrown, the list built so far (empty)
\* is returned
findAudioFilesCatch(w) ==
  [w EXCEPT !.state = "returned", !.stack = <<>>, !.audioFiles = <<>>]

\* the list request of listFiles(basePath, true)
listFiles(p, wf, f) ==
  /\ walk.state = "idle"
  /\ LET w == [walk EXCEPT !.parent = p, !.withFile = wf, !.failing = f,
                           !.listed = <<RootDir>>]
     IN  walk' =
           IF RootDir \in f
           THEN findAudioFilesCatch(w)
           ELSE [w EXCEPT !.state = "walking",
                          !.allFiles = filesIn(w, RootDir),
                          !.stack = subDirs(filesIn(w, RootDir))]
  /\ UNCHANGED notWalkVars

traverseDir_NoCatch ==
  /\ walk.state = "walking"
  /\ walk.stack # <<>>
  /\ LET d == Head(walk.stack)
         w == [walk EXCEPT !.listed = Append(@, d)]
     IN  walk' =
           IF d \in walk.failing
           THEN findAudioFilesCatch(w)
           ELSE [w EXCEPT !.allFiles = @ \o filesIn(walk, d),
                          !.stack = subDirs(filesIn(walk, d)) \o Tail(@)]
  /\ UNCHANGED notWalkVars

\* traverseDir(file) for the next directory: its own list request, whose
\* failure is caught and logged; its sub-folders are walked before the
\* remaining directories
traverseDir ==
  /\ walk.state = "walking"
  /\ walk.stack # <<>>
  /\ LET d == Head(walk.stack)
         w == [walk EXCEPT !.listed = Append(@, d)]
     IN  walk' =
           IF d \in walk.failing
           THEN [w EXCEPT !.stack = Tail(@)]
           ELSE [w EXCEPT !.allFiles = @ \o filesIn(walk, d),
                          !.stack = subDirs(filesIn(walk, d)) \o Tail(@)]
  /\ UNCHANGED notWalkVars

\* listFiles returned allFiles; findAudioFiles asks for the session and keeps
\* every audio file (with or without extracted tags)
ReturnAudioFiles(sessionOk) ==
  /\ walk.state = "walking"
  /\ walk.stack = <<>>
  /\ walk' =
       IF sessionOk
       THEN [walk EXCEPT !.state = "returned",
                         !.audioFiles = audioFileListOf(walk.allFiles)]
       ELSE [findAudioFilesCatch(walk) EXCEPT !.sessionThrew = TRUE]
  /\ UNCHANGED notWalkVars

WalkInit == Init /\ env = ConfiguredEnv

WalkNext ==
  \/ /\ walk.state = "idle"
     /\ \E n \in 1..MaxDirs : \E p \in Trees(n) :
          \E wf \in SUBSET (1..n) : \E f \in SUBSET (1..n) : listFiles(p, wf, f)
  \/ traverseDir
  \/ \E sessionOk \in BOOLEAN : ReturnAudioFiles(sessionOk)

\* a scan that was started goes on: every awaited request settles
WalkSpec ==
  /\ WalkInit /\ [][WalkNext]_vars
  /\ WF_vars(traverseDir)
  /\ WF_vars(\E sessionOk \in BOOLEAN : ReturnAudioFiles(sessionOk))

(***************************************************************************)
(* RootSpec: the folder the file-index operations hand to findAudioFiles.  *)
(* The root-path setting (SYNOLOGY_AUDIO_STATION_PATH) is fixed for the    *)
(* process: every operation reads the value the first one read.            *)
(***************************************************************************)
Folders == {"/music", "/audio", "/media"}
RootSettings == {Unset} \cup Folders

\* the audio files below each folder of the NAS
Share ==
  [f \in Folders |->
     CASE f = "/music" -> {[name |-> "1.mp3", artist |-> "A"],
                           [name |-> "2.mp3", artist |-> "B"]}
       [] f = "/audio" -> {[name |-> "3.mp3", artist |-> "A"]}
       [] f = "/media" -> {[name |-> "4.mp3", artist |-> "B"],
                           [name |-> "5.mp3", artist |-> "C"]}]
ArtistNames == {"A", "B", "C"}

\* const audioPath = env.SYNOLOGY_AUDIO_STATION_PATH || <default of the operation>
audioPath(o, setting) ==
  IF Truthy(setting) THEN setting
  ELSE IF o \in {"getHomeData", "getSongDetails"} THEN "/music" ELSE "/audio"

\* getHomeData's artist entries, each with the files grouped under its name
artistMap(allFiles) ==
  {[name |-> a, files |-> {f \in allFiles : f.artist = a}] :
     a \in {f.artist : f \in allFiles}}

\* allFiles.filter(f => f.artist === artistName)
artistFilesOf(allFiles, artistName) ==
  [name |-> artistName, files |-> {f \in allFiles : f.artist = artistName}]

notRootVars == <<coreVars, plexVars, loginVars, idVars, parseVars, batchVars,
                 trackVars, rendering, songObj, walk, authz>>

\* operation o of the file-index adapter, up to what it does with the files
\* of its folder; artistName is the decoded token of getArtistDetails
synScan(o, setting, artistName) ==
  /\ roots.setting \in {NotRead, setting}
  /\ LET allFiles == Share[audioPath(o, setting)]
     IN  roots' =
           [roots EXCEPT
              !.setting = setting,
              !.listed[o] = audioPath(o, setting),
              !.homeArtists =
                 IF o = "getHomeData" THEN artistMap(allFiles) ELSE @,
              !.artistFiles =
                 IF o = "getArtistDetails"
                 THEN {e \in @ : e.name # artistName}
                        \cup {artistFilesOf(allFiles, artistName)}
                 ELSE @]
  /\ UNCHANGED notRootVars

RootInit == Init /\ env = ConfiguredEnv

RootNext ==
  \E o \in DataOps : \E setting \in RootSettings : \E a \in ArtistNames :
    synScan(o, setting, a)

RootSpec == RootInit /\ [][RootNext]_vars

(***************************************************************************)
(* AuthSpec: the authorize callback of the credentials provider, in the    *)
(* version of src/config/auth.ts and in the version with the fallback      *)
(* admin.  A password is a number (0 the empty string), a stored hash the  *)
(* number bcrypt makes of it (0 for null), an e-mail address a string.     *)
(***************************************************************************)
ADMIN_EMAIL == "intellegin@pm.me"
MaxPassword == 2
Passwords == 0..MaxPassword
HashBase == 100
Emails == {"", "user@x", "nobody@x", ADMIN_EMAIL}

\* the bcrypt hash of a password
hash(pw) == HashBase + pw

\* what a password column holds: null, a hash, or (legacy) the bare password
Columns == {0} \cup {hash(pw) : pw \in 1..MaxPassword} \cup {1}

\* the users row db.query.users.findFirst finds for an e-mail address
NoRow == [found |-> FALSE, password_hash |-> 0, password |-> 0]
Rows(email) ==
  IF email \in {"user@x", ADMIN_EMAIL}
  THEN {NoRow} \cup
       {[found |-> TRUE, password_hash |-> h, password |-> l] :
          h \in {0, hash(1)}, l \in Columns}
  ELSE {NoRow}

DbStates == {"ok", "down", "unconfigured"}
AdminPasswords == {0} \cup (1..MaxPassword)

\* loginSchema.safeParse(credentials).success: an e-mail address and a
\* password are there
validatedFields(email, pw) == email # "" /\ pw # 0

compare_Plain(pw, stored) == stored = pw

\* bcryptjs compare(password, hash)
compare(pw, stored) == stored = hash(pw)

\* dbUser.password_hash || dbUser.password
passwordToCheck(row) ==
  IF row.password_hash # 0 THEN row.password_hash ELSE row.password

DbUser(email) == [kind |-> "user", id |-> email]
AdminUser == [kind |-> "user", id |-> "admin-user-id"]
Null == [kind |-> "null", id |-> ""]
Threw == [kind |-> "threw", id |-> ""]

\* process.env.ADMIN_PASSWORD is set and is the submitted password
adminMatch(email, pw, adminPassword) ==
  email = ADMIN_EMAIL /\ adminPassword # 0 /\ pw = adminPassword

\* src/config/auth.ts: no try/catch, a failing query rejects the call
authorizeConfig(email, pw, db, row) ==
  IF validatedFields(email, pw)
  THEN IF db # "ok" THEN Threw
       ELSE IF row.found /\ passwordToCheck(row) # 0
                 /\ compare(pw, passwordToCheck(row))
            THEN DbUser(email)
            ELSE Null
  ELSE Null

\* the version with the fallback admin
authorize(email, pw, db, row, adminPassword) ==
  IF ~validatedFields(email, pw) THEN Null
  ELSE IF adminMatch(email, pw, adminPassword) THEN AdminUser
  ELSE IF db = "unconfigured" THEN Null
  ELSE IF db = "down" THEN Null
  ELSE IF ~row.found THEN Null
  ELSE IF passwordToCheck(row) = 0 THEN Null
  ELSE IF ~compare(pw, passwordToCheck(row)) THEN Null
  ELSE DbUser(email)

notAuthVars == <<coreVars, plexVars, loginVars, idVars, parseVars, batchVars,
                 trackVars, rendering, songObj, walk, roots>>

\* one sign-in attempt
SignIn(version, email, pw, db, row, adminPassword) ==
  /\ authz' =
       [version |-> version, email |-> email, password |-> pw, db |-> db,
        row |-> row, adminPassword |-> adminPassword,
        outcome |-> IF version = "config"
                    THEN authorizeConfig(email, pw, db, row)
                    ELSE authorize(email, pw, db, row, adminPassword)]
  /\ UNCHANGED notAuthVars

AuthInit == Init /\ env = ConfiguredEnv

AuthNext ==
  \E version \in {"config", "fallback"} : \E email \in Emails :
    \E pw \in Passwords : \E db \in DbStates : \E row \in Rows(email) :
      \E adminPassword \in AdminPasswords :
        SignIn(version, email, pw, db, row, adminPassword)

AuthSpec == AuthInit /\ [][AuthNext]_vars

(***************************************************************************)
(* Properties                                                              *)
(***************************************************************************)
RequestsTo(p) == {r \in net : r.to = p}
SynologyFields(e) ==
  {e.SYNOLOGY_SERVER_URL, e.SYNOLOGY_USERNAME, e.SYNOLOGY_PASSWORD}
PlexFields(e) == {e.PLEX_URL, e.PLEX_TOKEN}

ProviderRank(p) == IF p = "synology" THEN 1 ELSE IF p = "plex" THEN 2 ELSE 3

C2_AsClaimed ==
  /\ \A i, j \in 1..Len(called) : i < j => ProviderRank(called[i]) < ProviderRank(called[j])
  /\ pc = "done" => (result.kind # "throw"
                      /\ (result.error => result.from = "jiosaavn"))

\* C3 as stated: file-index not configured, home-media selected and
\* configured: getHomeData returns the home-media output while its calls
\* succeed, and when a home-media call fails it does not throw and returns the
\* catalog adapter's result.
C3_AsClaimed ==
  ( /\ op = "getHomeData" /\ pc = "done"
    /\ Unset \in SynologyFields(env)
    /\ env.API_PROVIDER = "plex" /\ PlexFields(env) = {Real} )
  => /\ result.kind # "throw"
     /\ result.from \in {"plex", "jiosaavn"}
     /\ result.from = "plex" => ~result.error
     /\ result.from = "jiosaavn" => "plex" \in Range(called)

\* C4: no router operation throws to the page layer; every completed call
\* returns the operation's result shape from one of the adapters it called,
\* the empty shape when the adapter that answered had failed.
C4_RouterNeverThrows ==
  pc = "done" =>
    /\ op \in Ops
    /\ result.kind \in {"data", "empty"}
    /\ result.from \in Range(called)
    /\ result.from = called[Len(called)]
    /\ result.error => result.kind = "empty"

C4_Witness ==
  /\ pc = "done" /\ op = "getSongDetails"
  /\ called = <<"synology", "jiosaavn">>
  /\ result = CatalogResult("empty", TRUE)

C6_AsClaimed ==
  (op \in MenuOps /\ called # <<>> /\ SynologyFields(env) = {Real}) =>
    called[1] = "synology"

\* C6 (amended): the menu operations never involve the file-index adapter:
\* they are serviced by the home-media adapter when API_PROVIDER is "plex" and
\* the Plex URL and token are present, and by the catalog adapter otherwise.
C6_MenuSelection ==
  (op \in MenuOps /\ called # <<>>) =>
    /\ called = << IF env.API_PROVIDER = "plex" /\ Unset \notin PlexFields(env)
                   THEN "plex" ELSE "jiosaavn" >>
    /\ RequestsTo("synology") = {}

C6_Witness ==
  /\ op \in MenuOps /\ pc = "done"
  /\ SynologyFields(env) = {Real}
  /\ called = <<"jiosaavn">>
  /\ result.from = "jiosaavn"

\* C7 as stated: a cached token is reused without login while 20 minutes
\* from its login have not elapsed; it is refreshed by a login on the next use
\* after expiry, after a failed login and after a failed File Station call
\* made with it.
CallStarts(c) == cpc[c] = "idle" /\ cpc'[c] # "idle"
TokenLive == sessionId # 0 /\ now < loginAt[sessionId] + SessionTTL

C7_AsClaimed ==
  [][\A c \in Callers :
       /\ (CallStarts(c) /\ TokenLive) =>
            (cpc'[c] # "login_wait" /\ cres'[c] = sessionId /\ nextSid' = nextSid)
       /\ (CallStarts(c) /\ ~TokenLive) => cpc'[c] = "login_wait"
       /\ (cpc[c] = "login_wait" /\ cpc'[c] = "threw") => sessionId' = 0
       /\ (cpc[c] = "fs_wait" /\ cpc'[c] = "threw" /\ cused[c] = sessionId) =>
            sessionId' # cused[c]]_vars

\* C7 (amended): a cached token is reused without login while 20 minutes from
\* its login have not elapsed; it is refreshed by a login on the next use
\* after expiry or after a failed login; a failed File Station call leaves the
\* cached token in place.
C7_SessionReuse ==
  [][\A c \in Callers :
       /\ (CallStarts(c) /\ TokenLive) =>
            (cpc'[c] # "login_wait" /\ cres'[c] = sessionId /\ nextSid' = nextSid)
       /\ (CallStarts(c) /\ ~TokenLive) => cpc'[c] = "login_wait"
       /\ (cpc[c] = "login_wait" /\ cpc'[c] = "threw") => sessionId' = 0
       /\ (cpc[c] = "fs_wait" /\ cpc'[c] = "threw") =>
            (sessionId' = sessionId /\ sessionExpiry' = sessionExpiry)]_vars

C7_Witness ==
  \E c, d \in Callers :
    /\ cpc[c] = "returned" /\ ~clogin[c] /\ cres[c] = sessionId
    /\ sessionId # 0 /\ loginAt[sessionId] < now
    /\ now < loginAt[sessionId] + SessionTTL
    /\ cpc[d] = "threw" /\ ckind[d] = "fs" /\ cused[d] = sessionId

\* C8: under every interleaving of concurrent session calls, a call that
\* returns holds an id issued by a successful login, a File Station request
\* carries such an id, and the cache is either empty (null, 0) or holds an
\* issued id together with the expiry of that id's own login.
C8_SessionCacheSafe ==
  /\ \A c \in Callers :
       cpc[c] \in {"returned", "fs_wait"} => cres[c] \in 1..nextSid
  /\ \A c \in Callers : cpc[c] = "fs_wait" => cused[c] \in 1..nextSid
  /\ \/ sessionId = 0 /\ sessionExpiry = 0
     \/ /\ sessionId \in 1..nextSid
        /\ sessionExpiry = loginAt[sessionId] + SessionTTL

\* two racing logins both succeeded: a redundant re-authentication
C8_Witness ==
  \E c, d \in Callers :
    /\ c # d
    /\ cpc[c] = "returned" /\ clogin[c]
    /\ cpc[d] = "returned" /\ clogin[d]
    /\ cres[c] # cres[d]
    /\ sessionId = cres[d]
    /\ loginAt[cres[c]] = loginAt[cres[d]]

\* C9 as stated: every outbound network call of the file-index and of the
\* home-media adapter carries a timeout that cancels it.
C9_AsClaimed ==
  inflight.to \in {"synology", "plex"} => inflight.timeout

\* C10 as stated: apart from the session token no adapter state survives a
\* request: the metadata cache stays empty and the metadata of every scanned
\* file is what this request's own download response gives.
MetaOfResponse(r) == IF r = "tags" THEN "tags" ELSE "heuristic"

C11_NoRetryWithinProvider ==
  /\ \A i, j \in 1..Len(called) : i # j => called[i] # called[j]
  /\ Len(called) <= 2
  /\ \A i \in 1..Len(called) :
       i < Len(called) =>
         /\ inflight.to # called[i]
         /\ pc # EntryPc(called[i])
         /\ result.from # called[i]

C11_Witness ==
  /\ op = "searchAll" /\ pc = "plex_wait"
  /\ called = <<"synology", "plex">>
  /\ LoginRequest \in net
  /\ inflight = PlexRequest("search")

\* C12: an unsuccessful login reply makes getSynologySession throw one of
\* three distinct errors: second factor required for code 403 with an
\* "authenticator" or "otp" error type, invalid credentials for code 402, the
\* generic login failure for any other unsuccessful reply; each time the
\* session cache is left empty.
Unsuccessful(r) == r.kind = "http_error" \/ ~r.success \/ ~r.sid

C12_LoginErrorClasses ==
  /\ Cardinality({loginError("2fa"), loginError("bad_credentials"),
                  loginError("generic")}) = 3
  /\ (loginResp # NoReply /\ Unsuccessful(loginResp)) =>
       /\ thrown =
            IF loginResp.code = 403 /\ loginResp.types \cap {"authenticator", "otp"} # {}
            THEN "Synology NAS requires 2FA authentication"
            ELSE IF loginResp.code = 402
                 THEN "Synology authentication failed: Invalid username or password"
                 ELSE "Synology login failed"
       /\ sessionId = 0
       /\ sessionExpiry = 0
  /\ (loginResp # NoReply /\ ~Unsuccessful(loginResp)) =>
       thrown = NoError /\ sessionId = nextSid

C12_Witness ==
  /\ nextSid = 1 /\ loginAt[1] = 0 /\ now > SessionTTL
  /\ loginResp.code = 403 /\ loginResp.types = {"otp", "other"}
  /\ thrown = loginError("2fa")
  /\ sessionId = 0

\* C13: the id of the Song mapped from a file has no "+", "/" or "=", decoding
\* it (substitutions reversed, padding restored) gives back exactly the file's
\* path, and getSongDetails called with the id of a scanned file finds that
\* file and nothing else.
C13_SongIdRoundTrip ==
  /\ \A l \in links :
       l.kind = "song" =>
         /\ l.token = l.id
         /\ \A i \in 1..Len(l.id) : l.id[i] \notin {43, 47, 61}
         /\ utf8Decode(base64Decode(
              padBase64(replaceAll(replaceAll(l.id, 45, 43), 95, 47)))) = l.path
  /\ \A f \in Range(library) :
       (lookup.op = "getSongDetails" /\ lookup.token = mapFileToSong(f).id) =>
         lookup.files = {f} /\ ~lookup.threw

C13_Witness ==
  /\ lookup.op = "getSongDetails"
  /\ \E f \in lookup.files :
       /\ lookup.token = mapFileToSong(f).id
       /\ \E i, j \in 1..Len(lookup.token) :
            lookup.token[i] = 45 /\ lookup.token[j] = 95
       /\ Len(lookup.token) % 4 = 2

\* C14 as stated: every album link is the URL-safe base64 of the composite
\* "artist-album", and getAlbumDetails called with the token of an artist and
\* album of the scan recovers that artist and that album and returns every
\* scanned file having both.
C14_AsClaimed ==
  /\ \A l \in links :
       l.kind = "album" => l.token = encodeToken(l.artist \o <<45>> \o l.album)
  /\ \A f \in Range(library) :
       (lookup.op = "getAlbumDetails"
          /\ lookup.token = encodeToken(f.artist \o <<45>> \o f.album)) =>
         /\ lookup.artist = f.artist
         /\ lookup.album = f.album
         /\ lookup.files = {g \in Range(library) :
                              g.artist = f.artist /\ g.album = f.album}

\* C15 as stated: a token that is not URL-safe base64 is used as the literal
\* key: the file path for getSongDetails, the "artist-album" key for
\* getAlbumDetails, the artist name for getArtistDetails.
Undecodable(tok) ==
  \/ \E i \in 1..Len(tok) : base64Value(tok[i]) = 64 \/ tok[i] \in {43, 47}
  \/ Len(tok) % 4 = 1

C15_AsClaimed ==
  Undecodable(lookup.token) =>
    /\ lookup.op = "getSongDetails" =>
         /\ lookup.files = {f \in Range(library) : f.path = lookup.token}
         /\ lookup.files # {} => ~lookup.threw
    /\ lookup.op = "getAlbumDetails" =>
         lookup.artist \o <<45>> \o lookup.album = lookup.token
    /\ lookup.op = "getArtistDetails" => lookup.artist = lookup.token

\* C16: for a file name made of segments joined by " - " plus an extension, in
\* a folder given by its chain of folder names: the title is the only segment
\* when there is one and the last segment otherwise; the track is the value of
\* the second-to-last segment when there are three or more segments and it is
\* all digits, else 0; the album is the innermost folder name, else the second
\* segment, else "Unknown Album"; the artist is the folder above it, else the
\* first segment, else "Unknown Artist".
C16_FilenameHeuristic ==
  parsed # NoParse =>
    LET segs == parseArgs.segments
        dirs == parseArgs.folders
        n == Len(segs)
        d == Len(dirs)
    IN  /\ parsed.title = segs[n]
        /\ parsed.track = IF n >= 3 /\ IsDigits(segs[n - 1])
                          THEN parseInt(segs[n - 1]) ELSE 0
        /\ parsed.album = IF d >= 1 THEN dirs[d]
                          ELSE IF n >= 2 /\ segs[2] # <<>> THEN segs[2]
                          ELSE UnknownAlbum
        /\ parsed.artist = IF d >= 2 THEN dirs[d - 1]
                           ELSE IF segs[1] # <<>> THEN segs[1]
                           ELSE UnknownArtist

C16_Witness ==
  /\ parseArgs.folders = <<<<65>>, <<66, 98>>>>
  /\ parseArgs.segments = <<<<97>>, <<48, 55>>, <<97, 46, 98>>>>
  /\ parsed = [artist |-> <<65>>, album |-> <<66, 98>>, title |-> <<97, 46, 98>>,
               track |-> 7]


\* what its own extraction alone gives a file: nothing for a file beyond the
\* cap, the cached entry, or this scan's download
OwnMetadata(f) ==
  IF extraction[f] = "none" THEN "heuristic"
  ELSE IF extraction[f] = "tags" \/ extraction[f] = "cached_tags" THEN "tags"
  ELSE "heuristic"

\* C17: a scan returns every audio file of the listing, in list order,
\* whichever extractions failed; a file whose extraction failed has the
\* filename-heuristic metadata, and every other file has the metadata its own
\* extraction gives, as if no file had failed.
C17_PartialItemIsolation ==
  pc = "scan_done" =>
    /\ Len(audioFiles) = Len(audioFileList)
    /\ \A f \in 1..Len(audioFileList) :
         /\ audioFiles[f].file = f
         /\ extraction[f] = "failed" =>
              audioFiles[f].meta = "heuristic" /\ audioFiles[f].duration = NoDuration
         /\ extraction[f] # "failed" => audioFiles[f].meta = OwnMetadata(f)

C17_Witness ==
  /\ pc = "scan_done"
  /\ Cardinality({f \in 1..Len(audioFileList) : extraction[f] = "failed"}) = 1
  /\ extraction[batchSize] = "failed"
  /\ audioFiles[1].meta = "tags"
  /\ audioFiles[batchSize + 1].meta = "tags"
  /\ Len(audioFiles) > maxFiles

\* the download requests issued since the scan started
Requested == {r \in net : r.kind = "download"}

\* C18 as claimed: at most maxFiles extraction requests per scan, every file
\* beyond the cap has heuristic metadata and no duration (Song duration 0),
\* and a file within the cap with readable tags whose extraction did not fail
\* in this scan has tag-derived metadata.
C18_AsClaimed ==
  pc = "scan_done" =>
    /\ Cardinality(Requested) <= maxFiles
    /\ \A f \in 1..Len(audioFileList) :
         /\ f > maxFiles =>
              /\ DownloadRequest(f) \notin Requested
              /\ audioFiles[f].meta = "heuristic"
              /\ audioFiles[f].duration = NoDuration
              /\ songDuration(audioFiles[f]) = 0
         /\ (f <= maxFiles /\ audioFileList[f].tagged /\ extraction[f] # "failed") =>
              audioFiles[f].meta = "tags"

\* C19 as claimed: when the listing has more files than the cap, every file
\* given to tag extraction is at least as recently modified as every file
\* left to the filename heuristic.
C19_AsClaimed ==
  (pc = "scan_done" /\ Len(audioFileList) > maxFiles) =>
    \A f, g \in 1..Len(audioFileList) :
      (audioFiles[f].via = "batch" /\ audioFiles[g].via = "remaining") =>
        audioFileList[f].mtime >= audioFileList[g].mtime

\* the files of the batch the loop is at
CurrentBatch == batchOf(batchAt, filesToProcess(audioFileList))

\* C20: at most batchSize extraction requests are in flight, all of them of
\* the current batch (every request of an earlier batch has completed and
\* its record has been pushed before the next batch starts), and when
\* findAudioFiles has returned no request is in flight and every file it
\* requested has the record of its own response, in list order, whatever the
\* order of completion.
C20_BatchedExtraction ==
  /\ Cardinality(pending) <= batchSize
  /\ pending \subseteq CurrentBatch
  /\ pc = "scan_wait" =>
       /\ Len(audioFiles) = batchAt
       /\ \A r \in Requested : r.file <= batchAt + batchSize
       /\ \A r \in Requested : r.file \in pending \/ extraction[r.file] \in {"tags", "failed"}
  /\ pc = "scan_done" =>
       /\ pending = {}
       /\ \A r \in Requested :
            /\ extraction[r.file] \in {"tags", "failed"}
            /\ audioFiles[r.file].file = r.file
            /\ audioFiles[r.file].via = "batch"
            /\ audioFiles[r.file].meta = OwnMetadata(r.file)

\* the second batch, its first request still in flight after the four
\* later ones have completed
C20_Witness ==
  /\ pc = "scan_wait"
  /\ batchAt = batchSize
  /\ pending = {batchSize + 1}
  /\ DOMAIN settled = CurrentBatch \ pending
  /\ Cardinality(Requested) = 2 * batchSize

\* C21 as claimed: no home-media operation throws, and whenever a step of it
\* failed (section discovery included) it returns its empty result.
C21_AsClaimed ==
  (pc = "done" /\ called = <<"plex">>) =>
    /\ result # Thrown
    /\ (result.error \/ discovery.state = "threw") => result.kind = "empty"

\* C21 (amended): no home-media operation throws; a failed section discovery
\* is absorbed (the operation goes on with the fallback section), and when
\* any other step fails (configuration missing, request failed, body
\* unusable) the operation returns its empty result; it returns data only
\* when every request of its plan has been sent and answered.
C21_NeverThrows ==
  (pc = "done" /\ called = <<"plex">>) =>
    /\ result # Thrown
    /\ result.from = "plex"
    /\ result.error => result.kind = "empty"
    /\ (~Truthy(env.PLEX_URL) \/ ~Truthy(env.PLEX_TOKEN)) =>
         result = PlexResult("empty", TRUE) /\ plexCalls = <<>>
    /\ result.kind = "data" =>
         /\ Len(plexCalls) = Len(PlexPlan(op))
         /\ inflight = NoRequest

C21_Witness ==
  /\ pc = "done"
  /\ called = <<"plex">>
  /\ op = "searchAll"
  /\ env.PLEX_URL = Real /\ env.PLEX_TOKEN = Real
  /\ discovery.state = "listed"
  /\ Len(plexCalls) = 2
  /\ result = PlexResult("empty", TRUE)

\* the sections of type "artist" or "album" of the discovery answer
MusicSections == SelectSeq(discovery.sections, LAMBDA x : x.type \in {"artist", "album"})

\* C22: a section-scoped request is sent only after the section-discovery
\* request, the first request of the operation, has completed; the section
\* id it carries is that of the first section of type "artist" or "album" of
\* the discovery answer, and "1" when discovery failed or listed no such
\* section; operations that list no section send no discovery request.
C22_DiscoveryFirst ==
  /\ \A i \in 1..Len(plexCalls) :
       plexCalls[i].kind \in SectionScoped =>
         /\ i > 1
         /\ plexCalls[1].kind = "sections"
         /\ discovery.state \in {"threw", "listed"}
         /\ plexCalls[i].section =
              (IF discovery.state = "threw" \/ MusicSections = <<>>
               THEN <<49>>
               ELSE removeFirst(MusicSections[1].key, SectionsPrefix))
  /\ \A i \in 1..Len(plexCalls) :
       plexCalls[i].kind = "sections" => i = 1 /\ op \in {"getHomeData", "searchAll"} \cup MenuOps
  /\ (inflight # NoRequest /\ inflight.kind = "sections") => Len(plexCalls) = 1

C22_Witness ==
  /\ op = "getFooterDetails"
  /\ pc = "plex_wait"
  /\ Len(discovery.sections) = 3
  /\ Len(plexCalls) = 3
  /\ plexCalls[2].section = <<51>>
  /\ plexCalls[3].section = <<51>>

\* C23: the Song's duration is the track's milliseconds divided by 1000 and
\* rounded down to whole seconds (185000 and 185999 both give 185), and 0 for
\* a track without duration.
C23_DurationConversion ==
  plexTrack # NoTrack =>
    /\ plexTrack.duration = <<>> => song.duration = 0
    /\ plexTrack.duration # <<>> =>
         /\ song.duration * 1000 <= plexTrack.duration[1]
         /\ plexTrack.duration[1] < (song.duration + 1) * 1000
    /\ plexTrack.duration \in {<<185000>>, <<185999>>} => song.duration = 185

C23_Witness ==
  /\ plexTrack.duration = <<185999>>
  /\ song.duration = 185

\* C24 as claimed: when the router's result comes from a failure of the
\* provider(s) it called, HomePage and SiteFooter render an empty state or
\* the "unable to load" message, and no exception is left unhandled.
C24_AsClaimed ==
  (rendering.component # "none" /\ rendering.of.error) =>
    rendering.view \in {"empty_state", "unable_to_load", "no_data_available"}

\* C25: sessionId is null exactly when sessionExpiry is 0; a non-null
\* sessionId is the id of the most recent successful login and sessionExpiry
\* is that login's time plus 20 minutes; a session call goes on with the
\* cached id and sends nothing exactly when the id is non-null and the time
\* is before sessionExpiry, and otherwise awaits a login request; a failed
\* login leaves (null, 0).
C25_SessionCache ==
  /\ []((sessionId = 0) <=> (sessionExpiry = 0))
  /\ [](sessionId # 0 =>
          /\ sessionId = nextSid
          /\ sessionExpiry = loginAt[sessionId] + 20 * 60 * 1000)
  /\ [][/\ (pc = "syn_session" /\ sessionId # 0 /\ now < sessionExpiry) =>
            (net' \ net \subseteq {ListRequest} /\ pc' # "syn_login"
               /\ sessionId' = sessionId /\ sessionExpiry' = sessionExpiry)
        /\ (pc = "syn_session" /\ ~(sessionId # 0 /\ now < sessionExpiry)) =>
            (pc' = "syn_login" /\ inflight' = LoginRequest)
        /\ (pc = "syn_login" /\ pc' # "syn_login" /\ nextSid' = nextSid) =>
            (sessionId' = 0 /\ sessionExpiry' = 0)]_vars

C25_Witness ==
  /\ nextSid = 2
  /\ sessionId = 2
  /\ loginAt[2] >= loginAt[1] + 20 * 60 * 1000
  /\ sessionExpiry = loginAt[2] + 20 * 60 * 1000
  /\ now < sessionExpiry
  /\ pc = "syn_list"

\* C26: with the file-index provider configured, getHomeData never throws and
\* the router returns the file-index adapter's module map without calling
\* another adapter; a failed login gives the map of three sections with empty
\* data, and a failed listing (or a failed session call of the scan) leaves
\* the scan empty, so that no section has data.
C26_HomeDataNeverThrows ==
  /\ []((pc = "done" /\ op = "getHomeData" /\ checkSynologyConfigured(env)) =>
          /\ result # Thrown
          /\ result.from = "synology"
          /\ called = <<"synology">>
          /\ \A r \in net : r.to = "synology"
          /\ result.error => (result.kind = "empty" /\ homeEntries(result) = 3
                                /\ ~homeHasData(result)))
  /\ [][(op = "getHomeData" /\ pc' = "syn_finish"
           /\ (pc = "syn_list" \/ pc = "syn_login")) =>
          (todo' = {} /\ \A f \in Files : scanned'[f] = "none")]_vars
  /\ []((op = "getHomeData" /\ pc = "done" /\ result.from = "synology"
           /\ \A f \in Files : scanned[f] = "none") => ~homeHasData(result))

C26_Witness ==
  /\ pc = "done"
  /\ op = "getHomeData"
  /\ env.API_PROVIDER = "plex" /\ env.PLEX_URL = Real /\ env.PLEX_TOKEN = Real
  /\ result = SynologyResult("empty", TRUE)
  /\ called = <<"synology">>
  /\ LoginRequest \in net

\* the tokens of a list that decode to the path of a scanned file, in order
Resolving(toks) ==
  SelectSeq(toks, LAMBDA t : \E i \in 1..Len(library) : library[i].path = decodeToken(t).value)

\* C27 as claimed: getSongDetails returns one Song per token that decodes to
\* the path of a scanned file, in token order, skipping the others, and
\* throws "No songs found" only when no token resolves.
C27_AsClaimed ==
  songObj.error # "not_called" =>
    IF Resolving(songObj.tokens) = <<>>
    THEN songObj.error = "No songs found"
    ELSE /\ songObj.error = "none"
         /\ Len(songObj.songs) = Len(Resolving(songObj.tokens))
         /\ \A i \in 1..Len(songObj.songs) :
              songObj.songs[i].token = Resolving(songObj.tokens)[i]

\* folder d and every folder above it answer their list request
RECURSIVE Served(_, _)
Served(w, d) ==
  /\ d \notin w.failing
  /\ d = RootDir \/ Served(w, w.parent[d])

\* C28: in a recursive scan no folder is listed twice; once findAudioFiles
\* has returned, a failed listing of the root gave the empty list, and
\* otherwise (the session still being granted) the files returned are, once
\* each, exactly the files of the folders that answer and whose ancestors all
\* answer, so that a failing sub-folder removes its own subtree and nothing
\* else; and every scan that started returns.
C28_TraversalIsolation ==
  /\ [](/\ \A i, j \in 1..Len(walk.listed) :
             walk.listed[i] = walk.listed[j] => i = j
        /\ walk.state = "returned" =>
             IF RootDir \in walk.failing
             THEN walk.audioFiles = <<>>
             ELSE ~walk.sessionThrew =>
                    /\ Range(walk.audioFiles) =
                         {FileEntry(d) : d \in {x \in walk.withFile : Served(walk, x)}}
                    /\ Len(walk.audioFiles) =
                         Cardinality({x \in walk.withFile : Served(walk, x)}))
  /\ (walk.state = "walking" ~> walk.state = "returned")

\* a scan returned in which a sub-folder with a file below it failed to list
\* while the file of a folder next to it was returned
C28_Witness ==
  /\ walk.state = "returned"
  /\ ~walk.sessionThrew
  /\ \E d \in walk.failing : \E c \in walk.withFile : \E o \in walk.withFile :
       /\ d # RootDir /\ d \in Range(walk.listed)
       /\ walk.parent[c] = d
       /\ o # RootDir /\ o # c /\ FileEntry(o) \in Range(walk.audioFiles)

\* a scan whose root listing failed returned
C28_RootFailed ==
  /\ walk.state = "returned"
  /\ RootDir \in walk.failing
  /\ walk.audioFiles = <<>>

\* C29: the file-index operations that have run all listed the same folder,
\* and every artist entry of getHomeData that getArtistDetails was asked for
\* resolved to the files that entry was made from (as claimed: also when the
\* root-path setting is unset)
C29_AsClaimed ==
  /\ \A o1, o2 \in DataOps :
       (roots.listed[o1] # NotListed /\ roots.listed[o2] # NotListed) =>
         roots.listed[o1] = roots.listed[o2]
  /\ \A h \in roots.homeArtists : \A e \in roots.artistFiles :
       e.name = h.name => e.files = h.files

\* the users table answered with a row whose stored hash (password_hash, else
\* password) is the hash of the submitted password
StoredHashMatches ==
  /\ authz.db = "ok"
  /\ authz.row.found
  /\ \/ authz.row.password_hash = HashBase + authz.password
     \/ authz.row.password_hash = 0 /\ authz.row.password = HashBase + authz.password

\* C30: authorize returns a user only for credentials with both fields that
\* match the stored hash of the database user with that e-mail address or,
\* with the fallback admin's address, are ADMIN_PASSWORD (fallback version
\* only); for anything else it returns null, except that the version without
\* a catch rejects when the users query fails.
C30_CredentialCheck ==
  authz.version # "none" =>
    /\ authz.outcome.kind = "user" =>
         /\ authz.email # "" /\ authz.password # 0
         /\ \/ StoredHashMatches /\ authz.outcome.id = authz.email
            \/ /\ authz.version = "fallback"
               /\ authz.email = ADMIN_EMAIL
               /\ authz.adminPassword # 0
               /\ authz.password = authz.adminPassword
               /\ authz.outcome.id = "admin-user-id"
    /\ authz.outcome.kind # "user" =>
         \/ authz.outcome.kind = "null"
         \/ authz.version = "config" /\ authz.db # "ok"

\* a sign-in against a row without password_hash whose legacy column holds
\* the hash of the submitted password succeeded
C30_Witness ==
  /\ authz.version # "none"
  /\ authz.row.found /\ authz.db = "ok"
  /\ authz.row.password_hash = 0
  /\ authz.password # 0
  /\ authz.row.password = HashBase + authz.password
  /\ authz.outcome.kind = "user"


====
